---- MODULE Spec2Model ----
(***************************************************************************)
(* Connect 4 (src/test/test.py): the game-state model and its transition   *)
(* function make_move, the win detector, the search engine (minimax_ab,    *)
(* ai_choose), NetPeer's framing of messages on the byte stream, and the   *)
(* host-authoritative synchronisation between two running instances of     *)
(* main().                                                                 *)
(*                                                                         *)
(* GameState objects live in a heap (reference -> field record), because   *)
(* the program shares them between the main loop, the receive thread and   *)
(* the state holder, and copies them with deepcopy.                        *)
(***************************************************************************)
EXTENDS Integers, Sequences, FiniteSets, TLC

\* ------------------------------------------------------------------ config
ROWS == 6
COLS == 7
SQUARE_SIZE == 100
WIDTH == 700

NoRef == 0          \* Python None where a GameState reference is expected

\* ------------------------------------------------------------------ bounds
\* accepted moves explored on top of a starting position by the make_move harness
MaxDepth == 2
\* cells or lines painted on top of a base board by the win-detector harness
MaxPaint == 1
\* inputs made or proposed by the players and the adversary in one run
MaxInputs == 3
\* matches started from the menu in one run
MaxMatches == 1
\* frames written by a foreign peer in one run
MaxInject == 1
\* frames written to the connection in a run of the transport harness
MaxFrames == 2
\* frame lengths above this one are all longer than anything a run writes
MaxLength == 1000
\* matches started after the first has been left, in SpecAgain
MaxRematches == 1
\* frames written by a foreign peer of the host in SpecForeign
MaxForeign == 2
\* accepted moves played from a seed position in the search harness
MaxPlies == 1
\* the depths 1 .. MaxSearchDepth of the direct calls of minimax_ab
MaxSearchDepth == 3

\* ------------------------------------------------------------------ GameState
Rows == 0 .. (ROWS - 1)
Cols == 0 .. (COLS - 1)

EmptyBoard == [r \in Rows |-> [c \in Cols |-> 0]]

NoMove == [kind |-> "None", col |-> 0, row |-> 0, player |-> 0]

\* GameState.__init__
GameState(mode, ai_level) ==
    [ board |-> EmptyBoard,
      current_player |-> 1,
      game_over |-> FALSE,
      winner |-> 0,
      move_count |-> 0,
      mode |-> mode,
      ai_level |-> ai_level,
      last_move |-> NoMove,
      local_player |-> 1,
      first_player_decided |-> FALSE ]

\* the smallest reference not in use
NewRef(h) ==
    CHOOSE n \in 1 .. (Cardinality(DOMAIN h) + 1) :
        /\ n \notin DOMAIN h
        /\ \A m \in 1 .. (n - 1) : m \in DOMAIN h

\* a copy that shares the original object: writes to the copy reach the original
GsCopyAlias(h, gs) ==
    [heap |-> h, ref |-> gs]

\* GameState.copy: deepcopy(self), a new object with equal fields
GsCopy(h, gs) ==
    LET n == NewRef(h)
    IN  [heap |-> (n :> h[gs]) @@ h, ref |-> n]

\* valid_moves
valid_moves(s) ==
    {c \in Cols : s.board[0][c] = 0}

\* ------------------------------------------------------------------ win detector
\* The four scans of check_winner / get_winning_positions, each the sequence of
\* the 4-cell lines it tests, in the order of the nested for loops.
Line4(r, c, dr, dc) ==
    [i \in 1 .. 4 |-> <<r + (i - 1) * dr, c + (i - 1) * dc>>]

\* a horizontal scan that stops one column short of the right edge
ScanHorizontalShort ==
    [k \in 1 .. (ROWS * (COLS - 4)) |->
        Line4((k - 1) \div (COLS - 4), (k - 1) % (COLS - 4), 0, 1)]

\* for r in range(ROWS): for c in range(COLS - 3)
ScanHorizontal ==
    [k \in 1 .. (ROWS * (COLS - 3)) |->
        Line4((k - 1) \div (COLS - 3), (k - 1) % (COLS - 3), 0, 1)]

\* for c in range(COLS): for r in range(ROWS - 3)
ScanVertical ==
    [k \in 1 .. (COLS * (ROWS - 3)) |->
        Line4((k - 1) % (ROWS - 3), (k - 1) \div (ROWS - 3), 1, 0)]

\* for r in range(ROWS - 3): for c in range(COLS - 3)
ScanDiagDown ==
    [k \in 1 .. ((ROWS - 3) * (COLS - 3)) |->
        Line4((k - 1) \div (COLS - 3), (k - 1) % (COLS - 3), 1, 1)]

\* for r in range(3, ROWS): for c in range(COLS - 3)
ScanDiagUp ==
    [k \in 1 .. ((ROWS - 3) * (COLS - 3)) |->
        Line4(3 + (k - 1) \div (COLS - 3), (k - 1) % (COLS - 3), -1, 1)]

ScanOrder ==
    ScanHorizontal \o ScanVertical \o ScanDiagDown \o ScanDiagUp

Cell(board, rc) == board[rc[1]][rc[2]]

\* v and v == b[..] == b[..] == b[..]
LineHit(board, line) ==
    /\ Cell(board, line[1]) # 0
    /\ \A i \in 2 .. 4 : Cell(board, line[i]) = Cell(board, line[1])

\* index in ScanOrder of the first line the scans find, 0 when they find none
FirstHit(board) ==
    LET hits == {k \in 1 .. Len(ScanOrder) : LineHit(board, ScanOrder[k])}
    IN  IF hits = {} THEN 0
        ELSE CHOOSE k \in hits : \A j \in hits : k <= j

\* check_winner
check_winner(board) ==
    LET k == FirstHit(board)
    IN  IF k = 0 THEN 0 ELSE Cell(board, ScanOrder[k][1])

\* get_winning_positions
get_winning_positions(board) ==
    LET k == FirstHit(board)
    IN  IF k = 0 THEN << >> ELSE ScanOrder[k]

\* ------------------------------------------------------------------ make_move
RECURSIVE ScanUp(_, _, _)
\* a search for the free row that runs from the top row downwards
ScanDown(board, col, r) ==
    CHOOSE x \in Rows : board[x][col] = 0 /\ \A y \in Rows : board[y][col] = 0 => x <= y

\* next(r for r in reversed(range(ROWS)) if board[r][col] == 0), from row r upwards
ScanUp(board, col, r) ==
    IF board[r][col] = 0 THEN r ELSE ScanUp(board, col, r - 1)

\* new.move_count > ROWS * COLS: a draw test that is one move late
BoardFullLate(move_count) == move_count > ROWS * COLS

\* new.move_count >= ROWS * COLS
BoardFull(move_count) == move_count >= ROWS * COLS

\* a make_move that leaves the turn with the player who moved
make_move_turn_kept(h, gs, col, player) ==
    IF col < 0 \/ col >= COLS \/ h[gs].board[0][col] # 0
    THEN [raised |-> TRUE, error |-> "Invalid move", heap |-> h, new |-> NoRef, row |-> -1]
    ELSE
        LET row   == ScanUp(h[gs].board, col, ROWS - 1)
            board == [h[gs].board EXCEPT ![row][col] = player]
            cp    == GsCopy(h, gs)
            new   == cp.ref
            h1    == [cp.heap EXCEPT
                        ![new].board = board,
                        ![new].last_move =
                            [kind |-> "tuple", col |-> col, row |-> row, player |-> player],
                        ![new].move_count = @ + 1]
            w     == check_winner(board)
            h2    == IF w # 0
                     THEN [h1 EXCEPT ![new].game_over = TRUE, ![new].winner = w]
                     ELSE IF BoardFull(h1[new].move_count)
                          THEN [h1 EXCEPT ![new].game_over = TRUE, ![new].winner = 3]
                          ELSE h1
        IN  [raised |-> FALSE, error |-> "", heap |-> h2, new |-> new, row |-> row]

\* make_move: the result record holds the heap after the call, the new object
\* and the row, or raised = TRUE with the ValueError's text
make_move(h, gs, col, player) ==
    IF col < 0 \/ col >= COLS \/ h[gs].board[0][col] # 0
    THEN [raised |-> TRUE, error |-> "Invalid move", heap |-> h, new |-> NoRef, row |-> -1]
    ELSE
        LET row   == ScanUp(h[gs].board, col, ROWS - 1)
            board == [h[gs].board EXCEPT ![row][col] = player]
            cp    == GsCopy(h, gs)
            new   == cp.ref
            h1    == [cp.heap EXCEPT
                        ![new].board = board,
                        ![new].last_move =
                            [kind |-> "tuple", col |-> col, row |-> row, player |-> player],
                        ![new].move_count = @ + 1,
                        ![new].current_player = IF player = 1 THEN 2 ELSE 1]
            w     == check_winner(board)
            h2    == IF w # 0
                     THEN [h1 EXCEPT ![new].game_over = TRUE, ![new].winner = w]
                     ELSE IF BoardFull(h1[new].move_count)
                          THEN [h1 EXCEPT ![new].game_over = TRUE, ![new].winner = 3]
                          ELSE h1
        IN  [raised |-> FALSE, error |-> "", heap |-> h2, new |-> new, row |-> row]

\* the state value reached from s by the moves cols, each made by the player
\* whose turn it is, until the game is over; a rejected move leaves the state
\* as it was (as every caller of make_move does)
RECURSIVE Play(_, _)
Play(s, cols) ==
    IF s.game_over \/ cols = << >> THEN s
    ELSE LET m == make_move(1 :> s, 1, Head(cols), s.current_player)
         IN  Play(IF m.raised THEN s ELSE m.heap[m.new], Tail(cols))

\* ------------------------------------------------------------------ positions
\* A complete game of 42 accepted moves in which no line of four ever appears.
DrawGame ==
    << 4, 1, 6, 2, 1, 0, 1, 4, 4, 2, 4, 1, 3, 6, 3, 3, 1, 0, 4, 6, 6,
       1, 2, 3, 2, 3, 2, 2, 6, 5, 5, 0, 5, 4, 6, 5, 5, 5, 0, 0, 3, 0 >>

\* Player 1 stacks column 3, player 2 column 0: three each, player 1 to move.
StackGame ==
    << 3, 0, 3, 0, 3, 0 >>

NewGame == GameState("LOCAL", "EASY")

\* the positions of DrawGame after 10, 20, 30, 40 and all 42 moves
Draw10 == Play(NewGame, SubSeq(DrawGame, 1, 10))
Draw20 == Play(Draw10, SubSeq(DrawGame, 11, 20))
Draw30 == Play(Draw20, SubSeq(DrawGame, 21, 30))
Draw40 == Play(Draw30, SubSeq(DrawGame, 31, 40))
Draw42 == Play(Draw40, SubSeq(DrawGame, 41, 42))

Stack6 == Play(NewGame, StackGame)

\* The centre column filled by both players in turn: a position that is its
\* own mirror image, player 1 to move.
Centre6 == Play(NewGame, <<3, 3, 3, 3, 3, 3>>)

\* positions the program reaches by accepted moves from a new match
SeedStates ==
    {NewGame, Stack6, Draw40}

\* ------------------------------------------------------------------ serialisation
\* json.dumps of a tuple gives an array, which json.loads returns as a list
JsonValue(last_move) ==
    IF last_move.kind = "tuple" THEN [last_move EXCEPT !.kind = "list"] ELSE last_move

\* GameState.to_json: json.dumps(self.__dict__), a document of field -> value
to_json(s) ==
    [s EXCEPT !.last_move = JsonValue(@)]

\* GameState.from_json: a default GameState() whose __dict__ is updated with
\* the document's fields
from_json(d) ==
    LET gs0 == GameState("LOCAL", "EASY")
    IN  [f \in (DOMAIN gs0) \cup (DOMAIN d) |-> IF f \in DOMAIN d THEN d[f] ELSE gs0[f]]

\* ------------------------------------------------------------------ messages
MSG_GAME_STATE == "GAME_STATE"
MSG_PLAYER_MOVE == "PLAYER_MOVE"
MSG_JOIN == "JOIN_REQUEST"
MSG_JOIN_ACK == "JOIN_ACK"
MSG_REJECT == "MOVE_REJECTED"
MSG_DISCONNECT == "DISCONNECT"
MSG_ERROR == "ERROR"

\* The "state" field of a message: absent, an empty string, text that is not
\* JSON, or a JSON document.
NoState == [kind |-> "absent", doc |-> << >>]
EmptyState == [kind |-> "empty", doc |-> << >>]
GarbageState == [kind |-> "garbage", doc |-> << >>]
DocState(d) == [kind |-> "doc", doc |-> d]

\* The "col" field of a message: absent, an integer, or a value of another type.
Msg(type) ==
    [type |-> type, colkind |-> "absent", col |-> 0, state |-> NoState, text |-> ""]
GameStateMsg(s) == [Msg(MSG_GAME_STATE) EXCEPT !.state = DocState(to_json(s))]
PlayerMoveMsg(col) == [Msg(MSG_PLAYER_MOVE) EXCEPT !.colkind = "int", !.col = col]
RejectMsg(reason) == [Msg(MSG_REJECT) EXCEPT !.text = reason]
ErrorMsg(message) == [Msg(MSG_ERROR) EXCEPT !.text = message]
NoMsg == Msg("")
EndOfStream == Msg("EOF")       \* not a frame: the peer closed the connection

\* error_container['msg'], as the pieces of the text
NoError == << >>

\* ------------------------------------------------------------------ program state
Inst == {"a", "b"}      \* two running instances of main(), on two machines
Peer(i) == IF i = "a" THEN "b" ELSE "a"

NoNet == [exists |-> FALSE, is_host |-> FALSE, running |-> FALSE, conn |-> "none"]
NoCol == -1             \* Python None where a column is expected
NoFile == [kind |-> "absent", doc |-> << >>]

VARIABLES
    heap,       \* reference -> GameState fields, the live objects
    uS,         \* make_move harness: the state passed to make_move
    uCall,      \* make_move harness: the outcome of the last call
    uDepth,     \* make_move harness: results adopted as the next input so far
    wBoard,     \* win-detector harness: the board under test
    wOut,       \* win-detector harness: what the detector returned for wBoard
    wPaint,     \* win-detector harness: paints applied to the base board
    holder,     \* per instance: state_container['state'], a reference or None
    gs,         \* per instance: the main loop's local gs of this iteration
    inMenu,     \* per instance: in_menu
    pc,         \* per instance: where the main loop stands
    err,        \* per instance: error_container['msg']
    waiting,    \* per instance: waiting_container['waiting_for_p2']
    net,        \* per instance: the NetPeer main()'s variable net refers to
    rx,         \* per instance: where the NetPeer's accept/receive thread stands
    reply,      \* per instance: the message the handler is about to send
    disc,       \* per instance: receive threads of stopped NetPeers still to end
    wire,       \* per instance: frames (and end of stream) on their way to it
    linked,     \* the two instances are the ends of one open connection
    aiThread,   \* ai_thread is not None
    aiBusy,     \* the worker has not stored its result yet
    aiCol,      \* ai_result['col']
    aiSnap,     \* gs_snapshot of the worker
    saveFile,   \* the content of SAVE_FILE
    inputs,      \* inputs made or proposed by the players so far
    matches,    \* matches started from the menu so far
    injected,   \* frames written by a foreign peer so far
    tPend,      \* transport harness, per sending thread: bytes send_json has still to write
    tLock,      \* transport harness: the threads inside "with self.lock"
    tDocs,      \* transport harness: the bodies of the frames, in the order they were begun
    tWire,      \* transport harness: every byte written to the connection so far
    tRead,      \* transport harness: how many of these bytes recv has returned
    tEnd,       \* transport harness: "open", "eof" (peer closed) or "fault" (I/O error)
    tPc,        \* transport harness: where recv_loop stands
    tLen,       \* transport harness: recv_loop's length
    tData,      \* transport harness: recv_loop's data
    tRun,       \* transport harness: self.running of the receiving NetPeer
    tOut,       \* transport harness: the messages passed to recv_callback, in order
    tDisc,      \* transport harness: Disconnect events passed to recv_callback
    tShort,     \* transport harness: some conn.recv(4) returned fewer than 4 bytes
    sPos,       \* search harness: the position, a GameState value
    sPlies,     \* search harness: accepted moves played from the seed position
    sCall,      \* search harness: the last call made on sPos
    sGot,       \* search harness: the pairs minimax_ab may have returned
    sCols       \* search harness: the columns ai_choose may have returned

moveVars == <<uS, uCall, uDepth>>
winVars == <<wBoard, wOut, wPaint>>
loopVars == <<inMenu, pc, err, waiting>>
netVars == <<net, rx, reply, disc, wire, linked>>
aiVars == <<aiThread, aiBusy, aiCol, aiSnap>>
appVars == <<holder, gs, loopVars, netVars, aiVars, saveFile, inputs, matches, injected>>
byteVars == <<tPend, tLock, tDocs, tWire, tRead, tEnd, tPc, tLen, tData, tRun, tOut, tDisc, tShort>>
searchVars == <<sPos, sPlies, sCall, sGot, sCols>>
benchVars == <<byteVars, searchVars>>
vars == <<heap, moveVars, winVars, benchVars, appVars>>

NoCall ==
    [status |-> "none", col |-> 0, player |-> 0, new |-> NoRef, row |-> -1, error |-> ""]

NoOut == [valid |-> FALSE, w |-> 0, pos |-> << >>]

\* the parts of the state a specification does not use
MoveIdle == uS = NoRef /\ uCall = NoCall /\ uDepth = 0
WinIdle == wBoard = EmptyBoard /\ wOut = NoOut /\ wPaint = 0
Senders == {"main", "handler"}
ByteIdle ==
    /\ tPend = [t \in Senders |-> << >>] /\ tLock = {} /\ tDocs = << >>
    /\ tWire = << >> /\ tRead = 0 /\ tEnd = "open"
    /\ tPc = "top" /\ tLen = 0 /\ tData = << >> /\ tRun = TRUE
    /\ tOut = << >> /\ tDisc = 0 /\ tShort = FALSE
NoSearch == [fn |-> "none", depth |-> 0, level |-> ""]
SearchIdle ==
    /\ sPos = GameState("LOCAL", "EASY") /\ sPlies = 0
    /\ sCall = NoSearch /\ sGot = {} /\ sCols = {}
BenchIdle == ByteIdle /\ SearchIdle
AppIdle ==
    /\ holder = [i \in Inst |-> NoRef] /\ gs = [i \in Inst |-> NoRef]
    /\ inMenu = [i \in Inst |-> TRUE] /\ pc = [i \in Inst |-> "top"]
    /\ err = [i \in Inst |-> NoError] /\ waiting = [i \in Inst |-> FALSE]
    /\ net = [i \in Inst |-> NoNet] /\ rx = [i \in Inst |-> "none"]
    /\ reply = [i \in Inst |-> NoMsg] /\ disc = [i \in Inst |-> 0]
    /\ wire = [i \in Inst |-> << >>] /\ linked = FALSE
    /\ aiThread = FALSE /\ aiBusy = FALSE /\ aiCol = NoCol /\ aiSnap = NewGame
    /\ saveFile = NoFile /\ inputs = 0 /\ matches = [i \in Inst |-> 0]
    /\ injected = 0

\* ------------------------------------------------------------------ make_move harness
\* A caller that holds a state s, calls make_move(s, c, p) for any column and
\* player, and may go on from the result when p was the player to move.
ArgCols == -1 .. COLS

MoveInit ==
    /\ \E s \in SeedStates : heap = 1 :> s
    /\ uS = 1
    /\ uCall = NoCall
    /\ uDepth = 0
    /\ WinIdle /\ BenchIdle
    /\ AppIdle

MoveCall(c, p) ==
    /\ uCall.status = "none"
    /\ LET m == make_move(heap, uS, c, p)
       IN  /\ heap' = m.heap
           /\ uCall' = [status |-> IF m.raised THEN "raised" ELSE "ok",
                        col |-> c, player |-> p,
                        new |-> m.new, row |-> m.row, error |-> m.error]
    /\ UNCHANGED <<uS, uDepth, winVars, benchVars, appVars>>

MoveAdopt ==
    /\ uCall.status = "ok"
    /\ uCall.player = heap[uS].current_player
    /\ uDepth < MaxDepth
    /\ heap' = 1 :> heap[uCall.new]
    /\ uS' = 1
    /\ uCall' = NoCall
    /\ uDepth' = uDepth + 1
    /\ UNCHANGED <<winVars, benchVars, appVars>>

MoveDrop ==
    /\ uCall.status # "none"
    /\ heap' = 1 :> heap[uS]
    /\ uS' = 1
    /\ uCall' = NoCall
    /\ UNCHANGED <<uDepth, winVars, benchVars, appVars>>

MoveNext ==
    \/ \E c \in ArgCols, p \in {1, 2} : MoveCall(c, p)
    \/ MoveAdopt
    \/ MoveDrop

SpecMove == MoveInit /\ [][MoveNext]_vars

\* the call make_move(s, c, p) is one the code accepts
ValidArgs(s, c) == c \in Cols /\ s.board[0][c] = 0

\* C1: for every state s, player p and column c in range whose top cell is
\* empty, make_move(s, c, p) returns a new state object with
\* move_count = s.move_count + 1 and leaves every field of s as it was.
C1_MakeMovePure ==
    [][\A c \in ArgCols, p \in {1, 2} :
          (MoveCall(c, p) /\ ValidArgs(heap[uS], c)) =>
              /\ uCall'.status = "ok"
              /\ uCall'.new \in DOMAIN heap' /\ uCall'.new # uS
              /\ heap'[uCall'.new].move_count = heap[uS].move_count + 1
              /\ uS \in DOMAIN heap' /\ heap'[uS] = heap[uS]]_vars

\* a valid call has returned: a second object with one more move
C1_Witness ==
    /\ uCall.status = "ok"
    /\ uCall.new # uS
    /\ heap[uCall.new].move_count = heap[uS].move_count + 1
    /\ heap[uS].move_count = 40

\* C3: on a valid make_move(s, c, p) the returned row is the largest row index
\* whose cell of column c is empty in s, the new board differs from s.board in
\* exactly that cell, which holds p, last_move = (c, row, p), and the new
\* state's current_player is the player other than p.
C3_GravityDrop ==
    [][\A c \in ArgCols, p \in {1, 2} :
          (MoveCall(c, p) /\ ValidArgs(heap[uS], c)) =>
              LET old == heap[uS]
                  new == heap'[uCall'.new]
                  row == uCall'.row
              IN  /\ row \in Rows
                  /\ old.board[row][c] = 0
                  /\ \A r \in Rows : old.board[r][c] = 0 => r <= row
                  /\ \A r \in Rows, k \in Cols :
                        new.board[r][k] =
                            IF r = row /\ k = c THEN p ELSE old.board[r][k]
                  /\ new.last_move =
                        [kind |-> "tuple", col |-> c, row |-> row, player |-> p]
                  /\ new.current_player \in {1, 2} \ {p}]_vars

\* a piece was dropped on top of earlier pieces, with free cells above it
C3_Witness ==
    /\ uCall.status = "ok"
    /\ uCall.row \in 1 .. (ROWS - 2)
    /\ heap[uCall.new].board[uCall.row][uCall.col] = uCall.player
    /\ heap[uCall.new].board[uCall.row + 1][uCall.col] # 0
    /\ heap[uCall.new].board[uCall.row - 1][uCall.col] = 0

\* ------------------------------------------------------------------ win-detector harness
\* Boards are built from a base board by overwriting single cells and whole
\* 4-cell runs with any value; the detector is then run on the result.
Dirs == { <<0, 1>>, <<1, 0>>, <<1, 1>>, <<1, -1>> }

InBoard(r, c) == r \in Rows /\ c \in Cols

BaseBoards ==
    {Draw42.board} \cup {s.board : s \in SeedStates}

WinInit ==
    /\ wBoard \in BaseBoards
    /\ wOut = NoOut
    /\ wPaint = 0
    /\ heap = << >>
    /\ MoveIdle /\ BenchIdle
    /\ AppIdle

PaintCell(r, c, v) ==
    /\ wPaint < MaxPaint
    /\ wBoard' = [wBoard EXCEPT ![r][c] = v]
    /\ wOut' = NoOut
    /\ wPaint' = wPaint + 1
    /\ UNCHANGED <<heap, moveVars, benchVars, appVars>>

PaintRun(r, c, d, v) ==
    /\ wPaint < MaxPaint
    /\ InBoard(r + 3 * d[1], c + 3 * d[2])
    /\ wBoard' = [x \in Rows |-> [y \in Cols |->
                    IF \E i \in 0 .. 3 : x = r + i * d[1] /\ y = c + i * d[2]
                    THEN v ELSE wBoard[x][y]]]
    /\ wOut' = NoOut
    /\ wPaint' = wPaint + 1
    /\ UNCHANGED <<heap, moveVars, benchVars, appVars>>

Detect ==
    /\ ~wOut.valid
    /\ wOut' = [valid |-> TRUE, w |-> check_winner(wBoard),
                pos |-> get_winning_positions(wBoard)]
    /\ UNCHANGED <<heap, moveVars, benchVars, wBoard, wPaint, appVars>>

WinNext ==
    \/ \E r \in Rows, c \in Cols, v \in 0 .. 2 : PaintCell(r, c, v)
    \/ \E r \in Rows, c \in Cols, d \in Dirs, v \in 1 .. 2 : PaintRun(r, c, d, v)
    \/ Detect

SpecWin == WinInit /\ [][WinNext]_vars

\* four consecutive cells from (r, c) in direction d, all on the board
RunCells(r, c, d) == {<<r + i * d[1], c + i * d[2]>> : i \in 0 .. 3}

\* the board holds four consecutive cells of value v in some direction
HasLine(board, v) ==
    \E r \in Rows, c \in Cols, d \in Dirs :
        /\ InBoard(r + 3 * d[1], c + 3 * d[2])
        /\ \A rc \in RunCells(r, c, d) : Cell(board, rc) = v

\* pos lists four cells that form a line of value v on the board
IsLineOf(board, pos, v) ==
    /\ Len(pos) = 4
    /\ \E r \in Rows, c \in Cols, d \in Dirs :
        /\ InBoard(r + 3 * d[1], c + 3 * d[2])
        /\ {pos[i] : i \in 1 .. 4} = RunCells(r, c, d)
    /\ \A i \in 1 .. 4 : Cell(board, pos[i]) = v

\* C4: check_winner returns 0 iff the board holds no four consecutive equal
\* non-empty cells in a row, a column or a diagonal; when it returns v in
\* {1, 2} a line of v exists and get_winning_positions returns the four cells
\* of a line of v; the list is empty exactly when check_winner returns 0.
C4_WinDetector ==
    wOut.valid =>
        /\ wOut.w \in 0 .. 2
        /\ (wOut.w = 0) <=> ~(HasLine(wBoard, 1) \/ HasLine(wBoard, 2))
        /\ wOut.w # 0 => HasLine(wBoard, wOut.w) /\ IsLineOf(wBoard, wOut.pos, wOut.w)
        /\ (wOut.pos = << >>) <=> (wOut.w = 0)

\* the detector found a line that ends in the rightmost column on a board that
\* also holds pieces of the other player
C4_Witness ==
    /\ wOut.valid
    /\ wOut.w = 2
    /\ \E i \in 1 .. 4 : wOut.pos[i][2] = COLS - 1
    /\ \E r \in Rows, c \in Cols : wBoard[r][c] = 1

\* ------------------------------------------------------------------ heap discipline
Roots(hold, g) == <<hold["a"], g["a"], hold["b"], g["b"]>>

Alloc(h, obj) ==
    [heap |-> (NewRef(h) :> obj) @@ h, ref |-> NewRef(h)]

\* The heap and the references after a step: objects no reference reaches are
\* freed, and the live ones are numbered in the order of Roots.
Commit(h, hold, g) ==
    LET roots    == Roots(hold, g)
        live     == {roots[k] : k \in 1 .. 4} \ {NoRef}
        first(r) == CHOOSE k \in 1 .. 4 :
                        roots[k] = r /\ \A j \in 1 .. (k - 1) : roots[j] # r
        rank(r)  == Cardinality({x \in live : first(x) <= first(r)})
        ren(r)   == IF r = NoRef THEN NoRef ELSE rank(r)
    IN  /\ heap' = [n \in 1 .. Cardinality(live) |-> h[CHOOSE r \in live : rank(r) = n]]
        /\ holder' = [i \in Inst |-> ren(hold[i])]
        /\ gs' = [i \in Inst |-> ren(g[i])]

Set(f, i, v) == [f EXCEPT ![i] = v]

\* ------------------------------------------------------------------ save / load
\* save_game
save_game(s) == [kind |-> "doc", doc |-> to_json(s)]

\* ------------------------------------------------------------------ NetPeer
\* NetPeer.send_json: the frame reaches the peer's stream while the connection
\* stands; nothing is sent without a connection or when running is false
Sent(i, m) ==
    IF net[i].exists /\ net[i].conn = "open" /\ net[i].running /\ linked
    THEN Set(wire, Peer(i), Append(wire[Peer(i)], m))
    ELSE wire

\* net.stop(); net = None.  The connection is closed: the peer's stream ends
\* behind the frames in flight, and this NetPeer's receive thread, if it runs,
\* leaves its loop (to deliver its Disconnect event later).
NetStop(i) ==
    /\ net' = Set(net, i, NoNet)
    /\ rx' = Set(rx, i, "none")
    /\ reply' = Set(reply, i, NoMsg)
    /\ disc' = Set(disc, i, IF rx[i] \in {"recv", "reply"} THEN disc[i] + 1 ELSE disc[i])
    /\ linked' = FALSE
    /\ wire' = IF linked
               THEN [j \in Inst |-> IF j = i THEN << >> ELSE Append(wire[j], EndOfStream)]
               ELSE Set(wire, i, << >>)

\* if net: net.stop(); net = None
NetStopIf(i) ==
    IF net[i].exists THEN NetStop(i) ELSE UNCHANGED netVars

\* ------------------------------------------------------------------ handle_network_message
\* What handling message m does at instance i: the heap and the holder's
\* reference afterwards, the error text, waiting_for_p2, and the message passed
\* to net.send_json (NoMsg when none is).
NetworkError == <<"Network error">>

Handled(i, h, ref, e, w, r) ==
    [h |-> h, ref |-> ref, err |-> e, waiting |-> w, reply |-> r]

Unhandled(i) == Handled(i, heap, holder[i], err[i], waiting[i], NoMsg)

\* a Join handler that draws the first player again at every JoinRequest
HandleJoinRedeciding(i) ==
    LET s == holder[i]
    IN  IF s # NoRef
        THEN {Handled(i, h2, s, err[i], FALSE, GameStateMsg(h2[s])) :
                h2 \in {[heap EXCEPT ![s].current_player = p,
                                     ![s].first_player_decided = TRUE] : p \in {1, 2}}}
        ELSE {Handled(i, heap, s, err[i], FALSE, ErrorMsg("Game not initialized"))}

\* typ == MSG_JOIN and net.is_host
HandleJoin(i) ==
    LET s == holder[i]
    IN  IF s # NoRef
        THEN {Handled(i, h2, s, err[i], FALSE, GameStateMsg(h2[s])) :
                h2 \in IF ~heap[s].first_player_decided
                       THEN {[heap EXCEPT ![s].current_player = p,
                                          ![s].first_player_decided = TRUE] : p \in {1, 2}}
                       ELSE {heap}}
        ELSE {Handled(i, heap, s, err[i], FALSE, ErrorMsg("Game not initialized"))}

\* a GameStateSync branch that stores the deserialized state as it came,
\* without setting mode and local_player for the recipient
HandleGameStateAsSent(i, m) ==
    IF m.state.kind \in {"absent", "empty"}
    THEN Handled(i, heap, holder[i], <<"Invalid game state">>, waiting[i], NoMsg)
    ELSE IF m.state.kind = "garbage"
    THEN Handled(i, heap, holder[i], NetworkError, waiting[i], NoMsg)
    ELSE LET a == Alloc(heap, from_json(m.state.doc))
         IN  Handled(i, a.heap, a.ref, NoError, waiting[i], NoMsg)

\* a GameStateSync branch that drops the state it holds when the payload is empty
HandleGameStateDropping(i, m) ==
    IF m.state.kind \in {"absent", "empty"}
    THEN Handled(i, heap, NoRef, <<"Invalid game state">>, waiting[i], NoMsg)
    ELSE IF m.state.kind = "garbage"
    THEN Handled(i, heap, holder[i], NetworkError, waiting[i], NoMsg)
    ELSE LET mode == IF ~net[i].is_host THEN "ONLINE_CLIENT" ELSE "ONLINE_HOST"
             new  == [from_json(m.state.doc) EXCEPT
                        !.mode = mode,
                        !.local_player = IF mode = "ONLINE_CLIENT" THEN 2 ELSE 1]
             a    == Alloc(heap, new)
         IN  Handled(i, a.heap, a.ref, NoError, waiting[i], NoMsg)

\* typ == MSG_GAME_STATE
HandleGameState(i, m) ==
    IF m.state.kind \in {"absent", "empty"}
    THEN Handled(i, heap, holder[i], <<"Invalid game state">>, waiting[i], NoMsg)
    ELSE IF m.state.kind = "garbage"
    THEN Handled(i, heap, holder[i], NetworkError, waiting[i], NoMsg)
    ELSE LET mode == IF ~net[i].is_host THEN "ONLINE_CLIENT" ELSE "ONLINE_HOST"
             new  == [from_json(m.state.doc) EXCEPT
                        !.mode = mode,
                        !.local_player = IF mode = "ONLINE_CLIENT" THEN 2 ELSE 1]
             a    == Alloc(heap, new)
         IN  Handled(i, a.heap, a.ref, NoError, waiting[i], NoMsg)

\* the reasons given the other way round
RejectReasonSwapped(s) ==
    IF s.current_player # 2 THEN "Invalid column" ELSE "Not your turn"

\* reason = "Not your turn" if s.current_player != 2 else "Invalid column"
RejectReason(s) ==
    IF s.current_player # 2 THEN "Not your turn" ELSE "Invalid column"

\* typ == MSG_PLAYER_MOVE and net.is_host and s
HandlePlayerMove(i, m) ==
    LET s == holder[i]
    IN  IF heap[s].current_player = 2 /\ m.colkind # "int"
        THEN \* col >= 0 raises TypeError, caught by the handler's except
             Handled(i, heap, s, NetworkError, waiting[i], NoMsg)
        ELSE IF /\ heap[s].current_player = 2
                /\ m.col >= 0 /\ m.col < COLS
                /\ heap[s].board[0][m.col] = 0
        THEN LET mv == make_move(heap, s, m.col, 2)
             IN  IF mv.raised
                 THEN Handled(i, heap, s, err[i], waiting[i], RejectMsg(mv.error))
                 ELSE Handled(i, mv.heap, mv.new, err[i], waiting[i],
                              GameStateMsg(mv.heap[mv.new]))
        ELSE Handled(i, heap, s, err[i], waiting[i], RejectMsg(RejectReason(heap[s])))

\* the outcomes of handle_network_message(m, net, ...) at instance i
Handle(i, m) ==
    IF m.type = MSG_JOIN /\ net[i].is_host THEN HandleJoin(i)
    ELSE IF m.type = MSG_JOIN_ACK
    THEN {Handled(i, heap, holder[i], NoError, waiting[i], NoMsg)}
    ELSE IF m.type = MSG_GAME_STATE THEN {HandleGameState(i, m)}
    ELSE IF m.type = MSG_PLAYER_MOVE /\ net[i].is_host /\ holder[i] # NoRef
    THEN {HandlePlayerMove(i, m)}
    ELSE IF m.type = MSG_REJECT
    THEN {Handled(i, heap, holder[i], <<"Move rejected: ", m.text>>, waiting[i], NoMsg)}
    ELSE IF m.type = MSG_DISCONNECT
    THEN {Handled(i, heap, NoRef, <<"Disconnected from opponent">>, FALSE, NoMsg)}
    ELSE IF m.type = MSG_ERROR
    THEN {Handled(i, heap, holder[i], <<"Error: ", m.text>>, waiting[i], NoMsg)}
    ELSE {Unhandled(i)}

\* the handler's effect on the program state, up to its call of send_json
Handling(i, m) ==
    \E r \in Handle(i, m) :
        /\ Commit(r.h, Set(holder, i, r.ref), gs)
        /\ err' = Set(err, i, r.err)
        /\ waiting' = Set(waiting, i, r.waiting)
        /\ reply' = Set(reply, i, r.reply)

\* ------------------------------------------------------------------ main(): the menu
\* positions found in SAVE_FILE when the program starts, saved by an earlier run
SavedGames ==
    {NoFile} \cup {save_game(s) : s \in {Stack6, Draw40, [Draw40 EXCEPT !.mode = "AI"]}}

\* the x coordinates of the mouse clicks tried: columns 0 and 3
ClickXs == {50, 350}

\* the adversary levels chosen in the menu
AiLevels == {"EASY"}

AtMenu(i) ==
    /\ inMenu[i] /\ pc[i] = "top"
    /\ matches[i] < MaxMatches

\* a match starts with state s in the holder
StartWith(i, s) ==
    LET a == Alloc(heap, s)
    IN  /\ Commit(a.heap, Set(holder, i, a.ref), gs)
        /\ inMenu' = Set(inMenu, i, FALSE)
        /\ err' = Set(err, i, NoError)
        /\ matches' = Set(matches, i, matches[i] + 1)
        /\ injected' = injected

\* choice == "Play Local"
StartLocal(i) ==
    /\ AtMenu(i)
    /\ StartWith(i, GameState("LOCAL", "EASY"))
    /\ UNCHANGED <<moveVars, winVars, benchVars, pc, waiting, netVars, aiVars, saveFile, inputs>>

\* choice == "Play vs AI"
StartAI(i, lvl) ==
    /\ AtMenu(i)
    /\ StartWith(i, GameState("AI", lvl))
    /\ UNCHANGED <<moveVars, winVars, benchVars, pc, waiting, netVars, aiVars, saveFile, inputs>>

\* choice == "Host Online": start_host succeeds, accept_loop starts
StartHost(i, first) ==
    /\ AtMenu(i)
    /\ ~net[Peer(i)].is_host
    /\ StartWith(i, [GameState("ONLINE_HOST", "EASY") EXCEPT
                        !.local_player = 1,
                        !.current_player = first,
                        !.first_player_decided = TRUE])
    /\ net' = Set(net, i, [exists |-> TRUE, is_host |-> TRUE, running |-> FALSE,
                           conn |-> "listening"])
    /\ rx' = Set(rx, i, "accept")
    /\ waiting' = Set(waiting, i, TRUE)
    /\ UNCHANGED <<moveVars, winVars, benchVars, pc, reply, disc, wire, linked, aiVars, saveFile, inputs>>

\* choice == "Join Online", up to the return of net.start_client: the
\* connection stands, JOIN_ACK is handled, the receive thread runs
JoinConnect(i) ==
    /\ AtMenu(i)
    /\ net[Peer(i)].conn = "listening" /\ ~linked
    /\ net' = Set(net, i, [exists |-> TRUE, is_host |-> FALSE, running |-> TRUE,
                           conn |-> "open"])
    /\ linked' = TRUE
    /\ wire' = [j \in Inst |-> << >>]
    /\ rx' = Set(rx, i, "recv")
    /\ err' = Set(err, i, NoError)
    /\ pc' = Set(pc, i, "join")
    /\ UNCHANGED <<heap, holder, gs, moveVars, winVars, benchVars, inMenu, waiting, reply, disc,
                   aiVars, saveFile, inputs, matches, injected>>

\* ... and from there: state_container['state'] = s; in_menu = False
JoinInstall(i) ==
    /\ pc[i] = "join"
    /\ StartWith(i, [GameState("ONLINE_CLIENT", "EASY") EXCEPT !.local_player = 2])
    /\ pc' = Set(pc, i, "top")
    /\ UNCHANGED <<moveVars, winVars, benchVars, waiting, netVars, aiVars, saveFile, inputs>>

\* choice == "Continue Saved"
ContinueSaved(i) ==
    /\ AtMenu(i)
    /\ IF saveFile.kind = "doc"
       THEN StartWith(i, from_json(saveFile.doc))
       ELSE /\ err' = Set(err, i, <<"No saved game found">>)
            /\ UNCHANGED <<heap, holder, gs, inMenu, matches, injected>>
    /\ UNCHANGED <<moveVars, winVars, benchVars, pc, waiting, netVars, aiVars, saveFile, inputs>>

\* ------------------------------------------------------------------ main(): the game loop
\* where the loop goes after the event loop: the AI turn applies when
\* gs.mode == "AI" and gs.current_player == 2 and not gs.game_over, the
\* game-over block when gs.game_over, else the next iteration starts
AfterEvents(s) ==
    IF s.mode = "AI" /\ s.current_player = 2 /\ ~s.game_over THEN "ai"
    ELSE IF s.game_over THEN "over" ELSE "top"

AfterAi(s) == IF s.game_over THEN "over" ELSE "top"

\* gs = state_container.get('state'); back to the menu when it is None;
\* waiting_for_p2 is read: the waiting screen has an event loop of its own
LoopTop(i) ==
    /\ ~inMenu[i] /\ pc[i] = "top"
    /\ IF holder[i] = NoRef
       THEN /\ inMenu' = Set(inMenu, i, TRUE)
            /\ NetStopIf(i)
            /\ waiting' = Set(waiting, i, FALSE)
            /\ UNCHANGED <<heap, holder, gs, pc>>
       ELSE /\ Commit(heap, holder, Set(gs, i, holder[i]))
            /\ pc' = Set(pc, i, IF waiting[i] THEN "waitev" ELSE "events")
            /\ UNCHANGED <<inMenu, waiting, netVars>>
    /\ UNCHANGED <<moveVars, winVars, benchVars, err, aiVars, saveFile, inputs, matches, injected>>

\* the iteration continues after the event loop with local state g
MoveOn(i, g, to) ==
    /\ pc' = Set(pc, i, to)
    /\ Commit(heap, holder, Set(gs, i, IF to = "top" THEN NoRef ELSE g))

\* no event is queued
EvNone(i) ==
    /\ pc[i] \in {"events", "waitev"}
    /\ MoveOn(i, gs[i], AfterEvents(heap[gs[i]]))
    /\ UNCHANGED <<moveVars, winVars, benchVars, inMenu, err, waiting, netVars, aiVars, saveFile,
                   inputs, matches, injected>>

\* K_ESCAPE (also while waiting for player 2)
EvEsc(i) ==
    /\ pc[i] \in {"events", "waitev"}
    /\ saveFile' = IF i = "a" THEN save_game(heap[gs[i]]) ELSE saveFile
    /\ inMenu' = Set(inMenu, i, TRUE)
    /\ NetStopIf(i)
    /\ waiting' = Set(waiting, i, FALSE)
    /\ MoveOn(i, gs[i], AfterEvents(heap[gs[i]]))
    /\ UNCHANGED <<moveVars, winVars, benchVars, err, aiVars, inputs, matches, injected>>

\* K_s outside a finished game, or the auto-save timer: save_game(gs)
EvSave(i) ==
    /\ pc[i] = "events" /\ ~heap[gs[i]].game_over
    /\ saveFile' = IF i = "a" THEN save_game(heap[gs[i]]) ELSE saveFile
    /\ MoveOn(i, gs[i], AfterEvents(heap[gs[i]]))
    /\ UNCHANGED <<moveVars, winVars, benchVars, inMenu, err, waiting, netVars, aiVars, inputs,
                   matches, injected>>

\* a click handler without the try/except: the holder takes whatever make_move gave
ClickLocalUnguarded(i, mx) ==
    /\ pc[i] = "events" /\ inputs < MaxInputs
    /\ LET s   == heap[gs[i]]
           col == mx \div SQUARE_SIZE
           mv  == make_move(heap, gs[i], col, s.current_player)
       IN  /\ ~s.game_over
           /\ s.mode = "LOCAL" \/ (s.mode = "AI" /\ s.current_player = 1)
           /\ err' = Set(err, i, IF mv.raised THEN <<mv.error>> ELSE NoError)
           /\ pc' = Set(pc, i, "top")
           /\ Commit(mv.heap, Set(holder, i, mv.new), Set(gs, i, NoRef))
    /\ inputs' = inputs + 1
    /\ UNCHANGED <<moveVars, winVars, benchVars, inMenu, waiting, netVars, aiVars, saveFile, matches,
                   injected>>

\* MOUSEBUTTONDOWN at x = mx, in a LOCAL match or on the human's turn of an AI match
ClickLocal(i, mx) ==
    /\ pc[i] = "events" /\ inputs < MaxInputs
    /\ LET s   == heap[gs[i]]
           col == mx \div SQUARE_SIZE
           mv  == make_move(heap, gs[i], col, s.current_player)
       IN  /\ ~s.game_over
           /\ s.mode = "LOCAL" \/ (s.mode = "AI" /\ s.current_player = 1)
           /\ IF mv.raised
              THEN /\ err' = Set(err, i, <<mv.error>>)
                   /\ MoveOn(i, gs[i], AfterEvents(s))
              ELSE /\ err' = Set(err, i, NoError)
                   /\ pc' = Set(pc, i, AfterEvents(mv.heap[mv.new]))
                   /\ Commit(mv.heap, Set(holder, i, mv.new),
                             Set(gs, i, IF AfterEvents(mv.heap[mv.new]) = "top"
                                        THEN NoRef ELSE mv.new))
    /\ inputs' = inputs + 1
    /\ UNCHANGED <<moveVars, winVars, benchVars, inMenu, waiting, netVars, aiVars, saveFile, matches, injected>>

\* a host click handler that does not look at whose turn it is
ClickHostOffTurn(i, mx) ==
    /\ pc[i] = "events" /\ inputs < MaxInputs
    /\ LET s   == heap[gs[i]]
           col == mx \div SQUARE_SIZE
           mv  == make_move(heap, gs[i], col, s.current_player)
       IN  /\ ~s.game_over
           /\ s.mode = "ONLINE_HOST"
           /\ net[i].exists /\ net[i].running
           /\ IF mv.raised
              THEN /\ err' = Set(err, i, <<mv.error>>)
                   /\ MoveOn(i, gs[i], AfterEvents(s))
              ELSE /\ err' = err
                   /\ pc' = Set(pc, i, "send")
                   /\ Commit(mv.heap, Set(holder, i, mv.new), Set(gs, i, mv.new))
    /\ inputs' = inputs + 1
    /\ UNCHANGED <<moveVars, winVars, benchVars, inMenu, waiting, netVars, aiVars, saveFile, matches, injected>>

\* MOUSEBUTTONDOWN on the host's turn of an ONLINE_HOST match, up to
\* state_container['state'] = gs
ClickHost(i, mx) ==
    /\ pc[i] = "events" /\ inputs < MaxInputs
    /\ LET s   == heap[gs[i]]
           col == mx \div SQUARE_SIZE
           mv  == make_move(heap, gs[i], col, s.current_player)
       IN  /\ ~s.game_over
           /\ s.mode = "ONLINE_HOST" /\ s.current_player = s.local_player
           /\ net[i].exists /\ net[i].running
           /\ IF mv.raised
              THEN /\ err' = Set(err, i, <<mv.error>>)
                   /\ MoveOn(i, gs[i], AfterEvents(s))
              ELSE /\ err' = err
                   /\ pc' = Set(pc, i, "send")
                   /\ Commit(mv.heap, Set(holder, i, mv.new), Set(gs, i, mv.new))
    /\ inputs' = inputs + 1
    /\ UNCHANGED <<moveVars, winVars, benchVars, inMenu, waiting, netVars, aiVars, saveFile, matches, injected>>

\* ... and from there: net.send_json({"type": MSG_GAME_STATE, "state": gs.to_json()})
SendState(i) ==
    /\ pc[i] = "send"
    /\ wire' = Sent(i, GameStateMsg(heap[gs[i]]))
    /\ err' = Set(err, i, NoError)
    /\ MoveOn(i, gs[i], AfterEvents(heap[gs[i]]))
    /\ UNCHANGED <<moveVars, winVars, benchVars, inMenu, waiting, net, rx, reply, disc, linked,
                   aiVars, saveFile, inputs, matches, injected>>

\* a client that applies its own move to its cached state before proposing it
ClickClientApplies(i, mx) ==
    /\ pc[i] = "events" /\ inputs < MaxInputs
    /\ LET s  == heap[gs[i]]
           mv == make_move(heap, gs[i], mx \div SQUARE_SIZE, s.current_player)
       IN  /\ ~s.game_over
           /\ s.mode = "ONLINE_CLIENT" /\ s.current_player = s.local_player
           /\ net[i].exists /\ net[i].running
           /\ ~mv.raised
           /\ wire' = Sent(i, PlayerMoveMsg(mx \div SQUARE_SIZE))
           /\ pc' = Set(pc, i, "top")
           /\ Commit(mv.heap, Set(holder, i, mv.new), Set(gs, i, NoRef))
    /\ err' = Set(err, i, NoError)
    /\ inputs' = inputs + 1
    /\ UNCHANGED <<moveVars, winVars, benchVars, inMenu, waiting, net, rx, reply, disc, linked,
                   aiVars, saveFile, matches, injected>>

\* MOUSEBUTTONDOWN on the client's turn of an ONLINE_CLIENT match
ClickClient(i, mx) ==
    /\ pc[i] = "events" /\ inputs < MaxInputs
    /\ LET s == heap[gs[i]]
       IN  /\ ~s.game_over
           /\ s.mode = "ONLINE_CLIENT" /\ s.current_player = s.local_player
           /\ net[i].exists /\ net[i].running
           /\ wire' = Sent(i, PlayerMoveMsg(mx \div SQUARE_SIZE))
           /\ MoveOn(i, gs[i], AfterEvents(s))
    /\ err' = Set(err, i, NoError)
    /\ inputs' = inputs + 1
    /\ UNCHANGED <<moveVars, winVars, benchVars, inMenu, waiting, net, rx, reply, disc, linked,
                   aiVars, saveFile, matches, injected>>

\* an AI turn that starts a worker whether or not one was started before
AiStartAgain(i) ==
    /\ pc[i] = "ai" /\ inputs < MaxInputs
    /\ aiThread' = TRUE /\ aiBusy' = TRUE /\ aiCol' = NoCol
    /\ aiSnap' = heap[gs[i]]
    /\ MoveOn(i, gs[i], AfterAi(heap[gs[i]]))
    /\ UNCHANGED <<moveVars, winVars, benchVars, inMenu, err, waiting, netVars, saveFile, inputs,
                   matches, injected>>

\* the AI turn: start the worker, or apply its result, or wait for it
AiStart(i) ==
    /\ pc[i] = "ai" /\ ~aiThread /\ inputs < MaxInputs
    /\ aiThread' = TRUE /\ aiBusy' = TRUE /\ aiCol' = NoCol
    /\ aiSnap' = heap[gs[i]]
    /\ MoveOn(i, gs[i], AfterAi(heap[gs[i]]))
    /\ UNCHANGED <<moveVars, winVars, benchVars, inMenu, err, waiting, netVars, saveFile, inputs,
                   matches, injected>>

AiApply(i) ==
    /\ pc[i] = "ai" /\ aiThread /\ aiCol # NoCol
    /\ LET mv == make_move(heap, gs[i], aiCol, 2)
       IN  IF mv.raised
           THEN /\ err' = Set(err, i, <<mv.error>>)
                /\ MoveOn(i, gs[i], AfterAi(heap[gs[i]]))
           ELSE /\ err' = Set(err, i, NoError)
                /\ pc' = Set(pc, i, AfterAi(mv.heap[mv.new]))
                /\ Commit(mv.heap, Set(holder, i, mv.new),
                          Set(gs, i, IF AfterAi(mv.heap[mv.new]) = "top"
                                     THEN NoRef ELSE mv.new))
    /\ aiThread' = FALSE
    /\ inputs' = inputs + 1
    /\ UNCHANGED <<moveVars, winVars, benchVars, inMenu, waiting, netVars, aiBusy, aiCol, aiSnap,
                   saveFile, matches, injected>>

AiWait(i) ==
    /\ pc[i] = "ai" /\ aiThread /\ aiCol = NoCol
    /\ MoveOn(i, gs[i], AfterAi(heap[gs[i]]))
    /\ UNCHANGED <<moveVars, winVars, benchVars, inMenu, err, waiting, netVars, aiVars, saveFile,
                   inputs, matches, injected>>

\* ------------------------------------------------------------------ the search engine
\* the number of times v occurs in the window w
Count(w, v) == Cardinality({i \in 1 .. 4 : w[i] = v})

\* a score_window whose four in a row weighs a million
score_window_heavy(w, player) ==
    LET opp == IF player = 1 THEN 2 ELSE 1
        own == IF Count(w, player) = 4 THEN 1000 * 1000
               ELSE IF Count(w, player) = 3 /\ Count(w, 0) = 1 THEN 50
               ELSE IF Count(w, player) = 2 /\ Count(w, 0) = 2 THEN 10
               ELSE 0
    IN  IF Count(w, opp) = 3 /\ Count(w, 0) = 1 THEN own - 80 ELSE own

\* score_window
score_window(w, player) ==
    LET opp == IF player = 1 THEN 2 ELSE 1
        own == IF Count(w, player) = 4 THEN 1000
               ELSE IF Count(w, player) = 3 /\ Count(w, 0) = 1 THEN 50
               ELSE IF Count(w, player) = 2 /\ Count(w, 0) = 2 THEN 10
               ELSE 0
    IN  IF Count(w, opp) = 3 /\ Count(w, 0) = 1 THEN own - 80 ELSE own

\* the window of the board along a line of four cells
Window(board, line) == [i \in 1 .. 4 |-> Cell(board, line[i])]

\* the sum of the window scores of the lines lo .. hi of the four loops
RECURSIVE WindowSum(_, _, _, _)
WindowSum(board, player, lo, hi) ==
    IF lo > hi THEN 0
    ELSE IF lo = hi THEN score_window(Window(board, ScanOrder[lo]), player)
    ELSE LET mid == (lo + hi) \div 2
         IN  WindowSum(board, player, lo, mid) + WindowSum(board, player, mid + 1, hi)

\* evaluate_board: the centre bonus and every window of the four loops, which
\* are the loops of check_winner
evaluate_board(board, player) ==
    Cardinality({r \in Rows : board[r][COLS \div 2] = player}) * 6
    + WindowSum(board, player, 1, Len(ScanOrder))

Min(a, b) == IF a < b THEN a ELSE b

\* the score of a finished game for ai_player
WinScore == 10000000

\* float('inf'): above every score
Inf == 1000000000

Max(a, b) == IF a > b THEN a ELSE b

\* child, _ = make_move(state, col, player), for a column of valid_moves
Child(state, col, player) ==
    LET m == make_move(1 :> state, 1, col, player)
    IN  m.heap[m.new]

\* the columns of valid_moves(state) from column c on, the highest first
RECURSIVE LegalFromDescending(_, _)
LegalFromDescending(state, c) ==
    IF c >= COLS THEN << >>
    ELSE IF state.board[0][c] = 0 THEN LegalFromDescending(state, c + 1) \o <<c>>
    ELSE LegalFromDescending(state, c + 1)

\* the columns of valid_moves(state), in ascending order, from column c on
RECURSIVE LegalFrom(_, _)
LegalFrom(state, c) ==
    IF c >= COLS THEN << >>
    ELSE IF state.board[0][c] = 0 THEN <<c>> \o LegalFrom(state, c + 1)
    ELSE LegalFrom(state, c + 1)

\* best_col = random.choice(legal), as long as the loop has not replaced it
AnyCol == -2

\* random.choice(legal) with no legal column: IndexError
Raises == -3

\* minimax_ab as the pair (value, best_col); col is NoCol for None, AnyCol
\* when the column returned is the one random.choice chose, Raises when the
\* call raises.  The operator follows the function through its positions:
\*   at = "call"    the call of minimax_ab on state;
\*   at = "first"   the head of the for loop, before its first column;
\*   at = "scored"  in the loop body, score being what the nested call on the
\*                  child of Head(cols) returned;
\*   at = "next"    behind the loop body: the break, or the next column.
\* cols are the columns still to try; value and best_col are the loop's
\* variables.
RECURSIVE Search(_, _, _, _, _, _, _, _, _, _, _)
Search(state, depth, alpha, beta, maximizing, ai_player, at, cols, value, best_col, score) ==
    IF at = "call"
    THEN IF depth = 0 \/ state.game_over
         THEN IF state.game_over
              THEN IF state.winner = ai_player THEN [score |-> WinScore, col |-> NoCol]
                   ELSE IF state.winner = 3 THEN [score |-> 0, col |-> NoCol]
                   ELSE [score |-> -WinScore, col |-> NoCol]
              ELSE [score |-> evaluate_board(state.board, ai_player), col |-> NoCol]
         ELSE IF LegalFrom(state, 0) = << >> THEN [score |-> 0, col |-> Raises]
         ELSE Search(state, depth, alpha, beta, maximizing, ai_player, "first",
                     LegalFrom(state, 0), IF maximizing THEN -Inf ELSE Inf, AnyCol, 0)
    ELSE IF at = "scored"
    THEN LET better == IF maximizing THEN score > value ELSE score < value
             v      == IF better THEN score ELSE value
         IN  Search(state, depth,
                    IF maximizing THEN Max(alpha, v) ELSE alpha,
                    IF maximizing THEN beta ELSE Min(beta, v),
                    maximizing, ai_player, "next", Tail(cols),
                    v, IF better THEN Head(cols) ELSE best_col, 0)
    ELSE IF (at = "next" /\ alpha >= beta) \/ cols = << >>
    THEN [score |-> value, col |-> best_col]
    ELSE Search(state, depth, alpha, beta, maximizing, ai_player, "scored", cols,
                value, best_col,
                Search(Child(state, Head(cols),
                             IF maximizing THEN ai_player
                             ELSE IF ai_player = 2 THEN 1 ELSE 2),
                       depth - 1, alpha, beta, ~maximizing, ai_player, "call",
                       << >>, 0, AnyCol, 0).score)

\* minimax_ab: the pairs (value, best_col) it may return, one for each outcome
\* of random.choice(legal) when that outcome is what it returns
minimax_ab(state, depth, alpha, beta, maximizing, ai_player) ==
    LET r == Search(state, depth, alpha, beta, maximizing, ai_player, "call", << >>, 0, AnyCol, 0)
    IN  IF r.col = AnyCol
        THEN {[score |-> r.score, col |-> c] : c \in valid_moves(state)}
        ELSE {r}

\* gs.ai_level.upper(), for the levels used here
Upper(lvl) ==
    IF lvl = "easy" THEN "EASY"
    ELSE IF lvl = "medium" THEN "MEDIUM"
    ELSE IF lvl = "hard" THEN "HARD"
    ELSE lvl

\* the depths of the two searching levels
MedDepth == 4
HardDepth == 5

\* col if col is not None else random.choice(legal)
OrRandom(col, legal) == IF col # NoCol THEN {col} ELSE legal

\* an ai_choose that passes on whatever the search returned
ai_choose_unchecked(s) ==
    LET lvl == Upper(s.ai_level)
    IN  IF valid_moves(s) = {} THEN {NoCol}
        ELSE IF lvl = "EASY" THEN valid_moves(s)
        ELSE IF lvl \in {"MED", "MEDIUM"}
        THEN {r.col : r \in minimax_ab(s, MedDepth, -Inf, Inf, TRUE, 2)}
        ELSE IF lvl = "HARD"
        THEN {r.col : r \in minimax_ab(s, HardDepth, -Inf, Inf, TRUE, 2)}
        ELSE valid_moves(s)

\* ai_choose: the columns it may return (NoCol when no column is legal)
ai_choose(s) ==
    LET lvl == Upper(s.ai_level)
    IN  IF valid_moves(s) = {} THEN {NoCol}
        ELSE IF lvl = "EASY" THEN valid_moves(s)
        ELSE IF lvl \in {"MED", "MEDIUM"}
        THEN UNION {OrRandom(r.col, valid_moves(s)) :
                        r \in minimax_ab(s, MedDepth, -Inf, Inf, TRUE, 2)}
        ELSE IF lvl = "HARD"
        THEN UNION {OrRandom(r.col, valid_moves(s)) :
                        r \in minimax_ab(s, HardDepth, -Inf, Inf, TRUE, 2)}
        ELSE valid_moves(s)

\* worker(): ai_result['col'] = ai_choose(gs_snapshot)
AiWorker ==
    /\ aiBusy
    /\ aiBusy' = FALSE
    /\ aiCol' \in ai_choose(aiSnap)
    /\ UNCHANGED <<heap, holder, gs, moveVars, winVars, benchVars, loopVars, netVars, aiThread,
                   aiSnap, saveFile, inputs, matches, injected>>

\* if gs.game_over: save_game(gs); show_winner waits for ENTER
GameOverShow(i) ==
    /\ pc[i] = "over"
    /\ saveFile' = IF i = "a" THEN save_game(heap[gs[i]]) ELSE saveFile
    /\ pc' = Set(pc, i, "enter")
    /\ UNCHANGED <<heap, holder, gs, moveVars, winVars, benchVars, inMenu, err, waiting, netVars,
                   aiVars, inputs, matches, injected>>

\* ... ENTER: the connection is stopped and the match torn down
GameOverLeave(i) ==
    /\ pc[i] = "enter"
    /\ NetStopIf(i)
    /\ Commit(heap, Set(holder, i, NoRef), Set(gs, i, NoRef))
    /\ waiting' = Set(waiting, i, FALSE)
    /\ inMenu' = Set(inMenu, i, TRUE)
    /\ err' = Set(err, i, NoError)
    /\ pc' = Set(pc, i, "top")
    /\ UNCHANGED <<moveVars, winVars, benchVars, aiVars, saveFile, inputs, matches, injected>>

\* ------------------------------------------------------------------ NetPeer threads
\* accept_loop: a client connected; running = True, the JOIN event is handled
HostAccept(i) ==
    /\ rx[i] = "accept" /\ linked
    /\ net' = Set(net, i, [net[i] EXCEPT !.running = TRUE, !.conn = "open"])
    /\ Handling(i, Msg(MSG_JOIN))
    /\ rx' = Set(rx, i, "reply")
    /\ UNCHANGED <<moveVars, winVars, benchVars, inMenu, pc, disc, wire, linked, aiVars, saveFile,
                   inputs, matches, injected>>

\* recv_loop: one frame is read, decoded and handled
RxFrame(i) ==
    /\ rx[i] = "recv" /\ wire[i] # << >> /\ Head(wire[i]) # EndOfStream
    /\ Handling(i, Head(wire[i]))
    /\ wire' = Set(wire, i, Tail(wire[i]))
    /\ rx' = Set(rx, i, IF reply'[i] # NoMsg THEN "reply" ELSE "recv")
    /\ UNCHANGED <<moveVars, winVars, benchVars, inMenu, pc, net, disc, linked, aiVars, saveFile,
                   inputs, matches, injected>>

\* the handler's net.send_json(...)
RxReply(i) ==
    /\ rx[i] = "reply"
    /\ wire' = Sent(i, reply[i])
    /\ reply' = Set(reply, i, NoMsg)
    /\ rx' = Set(rx, i, "recv")
    /\ UNCHANGED <<heap, holder, gs, moveVars, winVars, benchVars, loopVars, net, disc, linked,
                   aiVars, saveFile, inputs, matches, injected>>

\* recv_loop: the stream ended; running = False, the Disconnect event is handled
RxClosed(i) ==
    /\ rx[i] = "recv" /\ wire[i] # << >> /\ Head(wire[i]) = EndOfStream
    /\ net' = Set(net, i, [net[i] EXCEPT !.running = FALSE])
    /\ Handling(i, Msg(MSG_DISCONNECT))
    /\ wire' = Set(wire, i, << >>)
    /\ rx' = Set(rx, i, "none")
    /\ UNCHANGED <<moveVars, winVars, benchVars, inMenu, pc, disc, linked, aiVars, saveFile,
                   inputs, matches, injected>>

\* the receive thread of a NetPeer stopped by net.stop() ends: its finally
\* block delivers the Disconnect event
RxStopped(i) ==
    /\ disc[i] > 0
    /\ disc' = Set(disc, i, disc[i] - 1)
    /\ Handling(i, Msg(MSG_DISCONNECT))
    /\ UNCHANGED <<moveVars, winVars, benchVars, inMenu, pc, net, rx, wire, linked, aiVars,
                   saveFile, inputs, matches, injected>>

\* ------------------------------------------------------------------ the program
Init ==
    /\ heap = << >>
    /\ MoveIdle /\ WinIdle /\ BenchIdle
    /\ holder = [i \in Inst |-> NoRef] /\ gs = [i \in Inst |-> NoRef]
    /\ inMenu = [i \in Inst |-> TRUE] /\ pc = [i \in Inst |-> "top"]
    /\ err = [i \in Inst |-> NoError] /\ waiting = [i \in Inst |-> FALSE]
    /\ net = [i \in Inst |-> NoNet] /\ rx = [i \in Inst |-> "none"]
    /\ reply = [i \in Inst |-> NoMsg] /\ disc = [i \in Inst |-> 0]
    /\ wire = [i \in Inst |-> << >>] /\ linked = FALSE
    /\ aiThread = FALSE /\ aiBusy = FALSE /\ aiCol = NoCol /\ aiSnap = NewGame
    /\ saveFile \in SavedGames
    /\ inputs = 0 /\ matches = [i \in Inst |-> 0]
    /\ injected = 0

\* instance a plays locally, against the adversary, or hosts; instance b joins
MainLoop(i) ==
    \/ LoopTop(i)
    \/ EvNone(i)
    \/ EvEsc(i)
    \/ \E mx \in ClickXs : ClickLocal(i, mx)
    \/ \E mx \in ClickXs : ClickHost(i, mx)
    \/ \E mx \in ClickXs : ClickClient(i, mx)
    \/ SendState(i)
    \/ EvSave(i)
    \/ GameOverShow(i)
    \/ GameOverLeave(i)

Next ==
    \/ StartLocal("a")
    \/ \E lvl \in AiLevels : StartAI("a", lvl)
    \/ \E first \in {1, 2} : StartHost("a", first)
    \/ ContinueSaved("a")
    \/ JoinConnect("b")
    \/ JoinInstall("b")
    \/ \E i \in Inst : MainLoop(i)
    \/ AiStart("a")
    \/ AiApply("a")
    \/ AiWait("a")
    \/ AiWorker
    \/ \E i \in Inst : HostAccept(i)
    \/ \E i \in Inst : RxFrame(i)
    \/ \E i \in Inst : RxReply(i)
    \/ \E i \in Inst : RxClosed(i)
    \/ \E i \in Inst : RxStopped(i)

Spec == Init /\ [][Next]_vars

\* ------------------------------------------------------------------ a foreign peer
\* The other end of the connection need not be this program: any frame that
\* decodes as a JSON object reaches handle_network_message.
HostFrames ==
    {[Msg(MSG_PLAYER_MOVE) EXCEPT !.colkind = k] : k \in {"absent", "text"}}
    \cup {PlayerMoveMsg(c) : c \in {-1, COLS}}
    \cup {[Msg(MSG_GAME_STATE) EXCEPT !.state = st] :
            st \in {EmptyState, GarbageState, DocState(to_json(Play(NewGame, <<3>>)))}}
    \cup {Msg(MSG_JOIN), Msg(MSG_JOIN_ACK), RejectMsg("Not your turn"),
          ErrorMsg("Game not initialized"), Msg("Ping")}

ClientFrames ==
    {PlayerMoveMsg(3), Msg(MSG_JOIN)}
    \cup {[Msg(MSG_GAME_STATE) EXCEPT !.state = st] : st \in {EmptyState, GarbageState}}
    \cup {RejectMsg("Not your turn"), ErrorMsg("Game not initialized")}

PeerFrames(i) == IF net[i].is_host THEN HostFrames ELSE ClientFrames

\* the peer of instance i writes a frame to the connection
Inject(i) ==
    /\ linked /\ net[i].exists /\ rx[i] \in {"recv", "reply"}
    /\ inputs < MaxInputs /\ injected < MaxInject
    /\ \E m \in PeerFrames(i) : wire' = Set(wire, i, Append(wire[i], m))
    /\ inputs' = inputs + 1
    /\ injected' = injected + 1
    /\ UNCHANGED <<heap, holder, gs, moveVars, winVars, benchVars, loopVars, net, rx, reply, disc,
                   linked, aiVars, saveFile, matches>>

NextPeer ==
    \/ Next
    \/ \E i \in Inst : Inject(i)

SpecPeer == Init /\ [][NextPeer]_vars

\* ------------------------------------------------------------------ claims on the program
\* the content of the holder of instance i: no state value, or one
Held(h, hold, i) == IF hold[i] = NoRef THEN << >> ELSE <<h[hold[i]]>>

\* the columns make_move must refuse in state s
RefusedCols(s) == {c \in ArgCols : c < 0 \/ c >= COLS \/ s.board[0][c] # 0}

\* make_move refuses column c for the object at ref: the error, no new object, heap as it was
Refuses(ref, c) ==
    LET mv == make_move(heap, ref, c, heap[ref].current_player)
    IN  mv.raised /\ mv.error = "Invalid move" /\ mv.new = NoRef /\ mv.heap = heap

\* a caller of make_move took its except branch at instance i
MoveRaised(i) ==
    /\ gs[i] # NoRef
    /\ \/ \E mx \in ClickXs :
            /\ ClickLocal(i, mx) \/ ClickHost(i, mx)
            /\ make_move(heap, gs[i], mx \div SQUARE_SIZE, heap[gs[i]].current_player).raised
       \/ AiApply(i) /\ make_move(heap, gs[i], aiCol, 2).raised

\* C2: make_move(s, c, p) raises "Invalid move", creates no state and leaves s
\* as it was whenever c < 0, c >= 7 or the top cell of column c is taken; and
\* when a caller (local click, host click, adversary move) gets this error the
\* state holder keeps the state it held and the error text is shown.
C2_InvalidMove ==
    /\ [](\A i \in Inst : gs[i] # NoRef =>
            \A c \in RefusedCols(heap[gs[i]]) : Refuses(gs[i], c))
    /\ [][\A i \in Inst : MoveRaised(i) =>
            /\ Held(heap', holder', i) = Held(heap, holder, i)
            /\ err'[i] = <<"Invalid move">>]_vars

\* a click on a full column was refused and the holder still has the state
C2_Witness ==
    \E i \in Inst :
        /\ err[i] = <<"Invalid move">>
        /\ holder[i] # NoRef
        /\ \E c \in Cols : heap[holder[i]].board[0][c] # 0

\* some player has four in a row on the board
AnyLine(board) == HasLine(board, 1) \/ HasLine(board, 2)

\* the non-empty cells of a board
Taken(board) == {rc \in Rows \X Cols : Cell(board, rc) # 0}

\* C5: in every state reached by accepted moves from a new match, game_over
\* holds exactly when the board has a line of four or move_count = 42; winner
\* is check_winner(board) when there is a line, 3 (draw) when the board is full
\* without a line, and 0 otherwise.
C5_GameOverWinner ==
    \A ref \in DOMAIN heap :
        LET s == heap[ref]
        IN  /\ s.game_over <=> (AnyLine(s.board) \/ s.move_count = ROWS * COLS)
            /\ AnyLine(s.board) =>
                    s.winner = check_winner(s.board) /\ s.winner \in {1, 2}
            /\ ~AnyLine(s.board) /\ Taken(s.board) = Rows \X Cols => s.winner = 3
            /\ ~AnyLine(s.board) /\ Taken(s.board) # Rows \X Cols => s.winner = 0

\* a match played to the 42nd move without a line: game over, a draw
C5_Witness ==
    \E i \in Inst :
        /\ holder[i] # NoRef /\ ~inMenu[i] /\ inputs > 0
        /\ heap[holder[i]].move_count = ROWS * COLS
        /\ ~AnyLine(heap[holder[i]].board)
        /\ heap[holder[i]].game_over /\ heap[holder[i]].winner = 3

\* the match of instance i goes on over the step
SameMatch(i) ==
    /\ ~inMenu[i] /\ ~inMenu'[i]
    /\ holder[i] # NoRef /\ holder'[i] # NoRef

\* C6: within a match (local, against the adversary, or online, on the host
\* and on the client) a non-empty cell keeps its value in every later state
\* of the holder, and move_count is the number of non-empty cells in every
\* state.
C6_CellsKept ==
    /\ [](\A ref \in DOMAIN heap :
            heap[ref].move_count = Cardinality(Taken(heap[ref].board)))
    /\ [][\A i \in Inst : SameMatch(i) =>
            \A rc \in Taken(heap[holder[i]].board) :
                Cell(heap'[holder'[i]].board, rc) = Cell(heap[holder[i]].board, rc)]_vars

\* C6, the part the program keeps: move_count counts the non-empty cells, and
\* on the host, and in local and adversary matches, no cell is ever changed
C6_CellsKeptByMoves ==
    /\ [](\A ref \in DOMAIN heap :
            heap[ref].move_count = Cardinality(Taken(heap[ref].board)))
    /\ [][SameMatch("a") =>
            \A rc \in Taken(heap[holder["a"]].board) :
                Cell(heap'[holder'["a"]].board, rc) = Cell(heap[holder["a"]].board, rc)]_vars

\* ------------------------------------------------------------------ claims on the protocol
\* the receive thread of instance i handles a frame of type typ
Receives(i, typ) ==
    /\ rx[i] = "recv" /\ wire[i] # << >>
    /\ Head(wire[i]).type = typ
    /\ RxFrame(i)

\* the host i, holding a match state, handles a PlayerMove
HostGetsMove(i) ==
    /\ net[i].is_host /\ holder[i] # NoRef
    /\ Receives(i, MSG_PLAYER_MOVE)

\* the PlayerMove m names a column the client may play in state s
Playable(s, m) ==
    /\ s.current_player = 2
    /\ m.colkind = "int" /\ m.col \in Cols
    /\ s.board[0][m.col] = 0

\* the state value make_move gives for the PlayerMove m at host i
MoveResult(i, m) ==
    LET mv == make_move(heap, holder[i], m.col, 2)
    IN  mv.heap[mv.new]

\* the handler of host i answered the PlayerMove m as the protocol says
AnsweredMove(i, m) ==
    IF Playable(heap[holder[i]], m)
    THEN /\ reply'[i] = GameStateMsg(MoveResult(i, m))
         /\ Held(heap', holder', i) = <<MoveResult(i, m)>>
    ELSE /\ reply'[i].type = MSG_REJECT
         /\ Held(heap', holder', i) = Held(heap, holder, i)

\* C7: for every PlayerMove the host receives while a match state exists,
\* exactly one reply is sent: a GameStateSync with the result of
\* make_move(state, col, 2), which becomes the canonical state, when
\* current_player = 2 and col is a column in range that is not full; in every
\* other case (out of turn, out of range, full, col missing or no integer) a
\* MoveRejected, the canonical state unchanged.
C7_PlayerMoveTotal ==
    [][\A i \in Inst : HostGetsMove(i) => AnsweredMove(i, Head(wire[i]))]_vars

\* C7, the part the program keeps: a PlayerMove whose col is an integer gets
\* exactly one reply, as the protocol says
C7_IntegerColumns ==
    [][\A i \in Inst : HostGetsMove(i) /\ Head(wire[i]).colkind = "int" =>
            AnsweredMove(i, Head(wire[i]))]_vars

\* C8: a PlayerMove (with any column) that reaches the host while its state
\* has current_player = 1 is answered MoveRejected "Not your turn"; with
\* current_player = 2 and a column out of range or full the reason is
\* "Invalid column"; the canonical state is unchanged in both cases.
C8_RejectReasons ==
    [][\A i \in Inst : HostGetsMove(i) =>
            LET s == heap[holder[i]]
                m == Head(wire[i])
            IN  /\ s.current_player = 1 =>
                    /\ reply'[i] = RejectMsg("Not your turn")
                    /\ Held(heap', holder', i) = Held(heap, holder, i)
                /\ s.current_player = 2 /\ m.colkind = "int" /\ ~Playable(s, m) =>
                    /\ reply'[i] = RejectMsg("Invalid column")
                    /\ Held(heap', holder', i) = Held(heap, holder, i)]_vars

\* the host, with player 2 to move, answers a column out of range
C8_Witness ==
    \E i \in Inst :
        /\ net[i].is_host /\ holder[i] # NoRef
        /\ heap[holder[i]].current_player = 2
        /\ rx[i] = "reply" /\ reply[i] = RejectMsg("Invalid column")

\* the fields of the canonical state
Canon(s) == <<s.board, s.current_player, s.game_over, s.winner, s.move_count>>

\* C9: in an online match the host's canonical state (board, current_player,
\* game_over, winner, move_count) changes only by the host's own accepted
\* local move or by an accepted PlayerMove from the peer; no other message
\* from the peer replaces or modifies it.
C9_HostAuthority ==
    [][\A i \in Inst :
            /\ net[i].is_host /\ SameMatch(i)
            /\ Canon(heap'[holder'[i]]) # Canon(heap[holder[i]])
            => \/ \E mx \in ClickXs : ClickHost(i, mx)
               \/ Receives(i, MSG_PLAYER_MOVE) /\ Playable(heap[holder[i]], Head(wire[i]))]_vars

\* instance i is in a match as the client
IsClient(i) ==
    /\ ~inMenu[i] /\ holder[i] # NoRef
    /\ heap[holder[i]].mode = "ONLINE_CLIENT"

\* C10: while a match goes on in online-client mode, the client's cached state
\* is changed only by handling a received GameStateSync, or cleared by a
\* Disconnect; a click only sends PlayerMove{col}; a PlayerMove or JoinRequest
\* the client receives leaves the state as it was.
C10_ClientCache ==
    [][\A i \in Inst : IsClient(i) /\ ~inMenu'[i] =>
            /\ Held(heap', holder', i) # Held(heap, holder, i) =>
                    \/ Receives(i, MSG_GAME_STATE)
                    \/ holder'[i] = NoRef /\ (RxClosed(i) \/ RxStopped(i))
            /\ \A mx \in ClickXs : ClickClient(i, mx) =>
                    /\ Held(heap', holder', i) = Held(heap, holder, i)
                    /\ wire' = Sent(i, PlayerMoveMsg(mx \div SQUARE_SIZE))
            /\ Receives(i, MSG_PLAYER_MOVE) \/ Receives(i, MSG_JOIN) =>
                    Held(heap', holder', i) = Held(heap, holder, i)]_vars

\* the client clicked: its PlayerMove is on the way, its cached state is still there
C10_Witness ==
    \E i \in Inst :
        /\ IsClient(i) /\ net[i].running
        /\ wire[Peer(i)] # << >>
        /\ Head(wire[Peer(i)]).type = MSG_PLAYER_MOVE
        /\ Head(wire[Peer(i)]).colkind = "int" /\ Head(wire[Peer(i)]).col \in Cols

\* ------------------------------------------------------------------ claims on synchronisation
\* the client i handles a GameStateSync whose payload deserializes
ClientGetsState(i) ==
    /\ net[i].exists /\ ~net[i].is_host
    /\ Receives(i, MSG_GAME_STATE)
    /\ Head(wire[i]).state.kind = "doc"

\* the fields a client takes from a received state as they are
SyncedFields ==
    {"board", "current_player", "game_over", "winner", "move_count", "last_move",
     "ai_level", "first_player_decided"}

\* C11: after the client handles a GameStateSync whose payload deserializes,
\* its cached state equals the received state in board, current_player,
\* game_over, winner, move_count, last_move, ai_level and
\* first_player_decided, with mode = ONLINE_CLIENT and local_player = 2;
\* nothing of the state cached before survives.
C11_FullReplace ==
    [][\A i \in Inst : ClientGetsState(i) =>
            /\ holder'[i] # NoRef
            /\ LET d == Head(wire[i]).state.doc
                   n == heap'[holder'[i]]
               IN  /\ \A f \in SyncedFields : n[f] = d[f]
                   /\ n.mode = "ONLINE_CLIENT" /\ n.local_player = 2
                   /\ DOMAIN n = SyncedFields \cup {"mode", "local_player"}]_vars

\* the client holds a position with a piece, received from the host
C11_Witness ==
    \E i \in Inst :
        /\ IsClient(i) /\ net[i].exists /\ ~net[i].is_host
        /\ heap[holder[i]].move_count > 0
        /\ heap[holder[i]].first_player_decided
        /\ heap[holder[i]].last_move.kind = "list"

\* the fields two processes are to agree on; last_move is taken as the JSON
\* value it has on the wire
Agreed(s) == <<Canon(s), JsonValue(s.last_move)>>

\* nothing is on the way between host h and client c: both receive threads wait
\* for a frame, no reply is pending, the host's main loop has sent what it
\* played, and the client caches a state it received
Quiescent(h, c) ==
    /\ linked /\ net[h].exists /\ net[h].is_host /\ net[h].running
    /\ net[c].exists /\ ~net[c].is_host /\ net[c].running
    /\ wire[h] = << >> /\ wire[c] = << >>
    /\ rx[h] = "recv" /\ rx[c] = "recv"
    /\ reply[h] = NoMsg /\ reply[c] = NoMsg
    /\ pc[h] # "send"
    /\ holder[h] # NoRef /\ ~inMenu[h]
    /\ IsClient(c) /\ heap[holder[c]].first_player_decided

\* C12: whenever every frame the host sent has been handled by the client and
\* nothing is in flight, the client's cached state equals the host's state in
\* board, current_player, game_over, winner, move_count and last_move, for
\* every interleaving of the host's local moves with accepted client moves.
C12_Agreement ==
    \A h, c \in Inst :
        Quiescent(h, c) => Agreed(heap[holder[c]]) = Agreed(heap[holder[h]])

\* the frames that carry no state: Error, MoveRejected, a GameStateSync with an
\* empty state or with a payload that does not deserialize
Stateless(m) ==
    \/ m.type \in {MSG_ERROR, MSG_REJECT}
    \/ m.type = MSG_GAME_STATE /\ m.state.kind # "doc"

\* error_container['msg'] after a stateless frame is handled
ErrorText(m) ==
    IF m.type = MSG_ERROR THEN <<"Error: ", m.text>>
    ELSE IF m.type = MSG_REJECT THEN <<"Move rejected: ", m.text>>
    ELSE IF m.state.kind = "garbage" THEN NetworkError
    ELSE <<"Invalid game state">>

\* C13: handling an Error, a MoveRejected, a GameStateSync with an empty state
\* or one whose payload fails to deserialize leaves the recipient's match state
\* as it was, on the host and on the client: the holder keeps the same state,
\* nothing is sent, and only the error message is set.
C13_StatelessFrames ==
    [][\A i \in Inst :
            /\ rx[i] = "recv" /\ wire[i] # << >>
            /\ Stateless(Head(wire[i]))
            /\ RxFrame(i)
            => /\ Held(heap', holder', i) = Held(heap, holder, i)
               /\ (holder[i] # NoRef => heap' = heap /\ holder'[i] = holder[i])
               /\ waiting' = waiting /\ reply'[i] = NoMsg
               /\ err'[i] = ErrorText(Head(wire[i]))]_vars

\* a client in a match shows the message of a frame without state, and still
\* holds the state it received
C13_Witness ==
    \E i \in Inst :
        /\ IsClient(i) /\ heap[holder[i]].first_player_decided
        /\ err[i] \in {NetworkError, <<"Invalid game state">>,
                       <<"Error: ", "Game not initialized">>}

\* ------------------------------------------------------------------ NetPeer: frames on the byte stream
\* One direction of a connection, byte by byte: send_json called from two
\* threads of the sending side, the transport delivering the bytes in pieces,
\* and recv_loop of the receiving side.  A byte is its value, 0 .. 255.
NET_BUF == 8192
PrefixLen == 4


\* json.dumps(obj).encode() for two messages: {} and {"":1}
Docs == { <<123, 125>>, <<123, 34, 34, 58, 49, 125>> }

\* bodies a foreign peer can frame: a byte no UTF-8 text contains (0xFF), and
\* text that is not JSON ("{")
BadBodies == { <<255>>, <<123>> }

\* len(data).to_bytes(4, byteorder='big')
ToBytes4(n) ==
    << (n \div 16777216) % 256, (n \div 65536) % 256, (n \div 256) % 256, n % 256 >>

\* int.from_bytes(bs, byteorder='big'), for the bytes recv returned; values
\* above MaxLength are kept as MaxLength
RECURSIVE FromBytesFrom(_, _)
FromBytesFrom(bs, acc) ==
    IF bs = << >> THEN acc
    ELSE FromBytesFrom(Tail(bs), Min(acc * 256 + Head(bs), MaxLength))

FromBytes(bs) == FromBytesFrom(bs, 0)

\* length + data, the argument of sendall
Frame(body) == ToBytes4(Len(body)) \o body

\* data.decode(): the bytes are UTF-8 text.  Of the bytes that occur here the
\* ones below 128 are one-byte characters and 255 is in no UTF-8 sequence.
Utf8Valid(data) == \A k \in 1 .. Len(data) : data[k] < 128

\* json.loads on the decoded text, as a recognizer of JSON values made of
\* digits, strings without escapes and objects with at most one member
RECURSIVE SkipDigits(_, _)
SkipDigits(s, i) ==
    IF i <= Len(s) /\ s[i] \in 48 .. 57 THEN SkipDigits(s, i + 1) ELSE i

\* the position behind the string whose opening quote is before i, 0 if none:
\* a control character inside a string is an error
RECURSIVE EndString(_, _)
EndString(s, i) ==
    IF i > Len(s) THEN 0
    ELSE IF s[i] = 34 THEN i + 1
    ELSE IF s[i] < 32 \/ s[i] = 92 THEN 0
    ELSE EndString(s, i + 1)

\* the position behind the value that starts at i, 0 if there is none
RECURSIVE EndValue(_, _)
EndValue(s, i) ==
    IF i > Len(s) THEN 0
    ELSE IF s[i] \in 49 .. 57 THEN SkipDigits(s, i + 1)
    ELSE IF s[i] = 48 THEN i + 1
    ELSE IF s[i] = 34 THEN EndString(s, i + 1)
    ELSE IF s[i] = 123
    THEN IF i + 1 <= Len(s) /\ s[i + 1] = 125 THEN i + 2
         ELSE IF i + 1 <= Len(s) /\ s[i + 1] = 34
         THEN LET k == EndString(s, i + 2)
              IN  IF k = 0 \/ k > Len(s) \/ s[k] # 58 THEN 0
                  ELSE LET v == EndValue(s, k + 1)
                       IN  IF v = 0 \/ v > Len(s) \/ s[v] # 125 THEN 0 ELSE v + 1
         ELSE 0
    ELSE 0

JsonValid(s) == EndValue(s, 1) = Len(s) + 1

\* msg = json.loads(data.decode()): a message, a JSONDecodeError or a
\* UnicodeDecodeError
Loads(data) ==
    IF ~Utf8Valid(data) THEN "UnicodeDecodeError"
    ELSE IF ~JsonValid(data) THEN "JSONDecodeError"
    ELSE "ok"

\* what the inner try of recv_loop does with a complete body: the message is
\* dispatched, or the loop continues (except json.JSONDecodeError), or the
\* exception leaves the loop (except Exception, finally)
AfterLoads(data) ==
    IF Loads(data) = "ok" THEN [dispatch |-> TRUE, pc |-> "top"]
    ELSE IF Loads(data) = "JSONDecodeError" THEN [dispatch |-> FALSE, pc |-> "top"]
    ELSE [dispatch |-> FALSE, pc |-> "finally"]

\* bytes written and not yet returned by recv
Avail == Len(tWire) - tRead

\* the next k of them
Take(k) == SubSeq(tWire, tRead + 1, tRead + k)

\* the sizes conn.recv(n) can return while bytes are there
Recvs(n) == 1 .. Min(n, Avail)

Begun == Len(tDocs) + Cardinality({t \in Senders : tPend[t] # << >> /\ t \notin tLock})

otherVars == <<heap, moveVars, winVars, searchVars, appVars>>

\* send_json up to the lock: data and length are computed
SendCall(t, d) ==
    /\ tEnd = "open" /\ tPend[t] = << >> /\ Begun < MaxFrames
    /\ tPend' = [tPend EXCEPT ![t] = Frame(d)]
    /\ UNCHANGED <<tLock, tDocs, tWire, tRead, tEnd, tPc, tLen, tData, tRun, tOut, tDisc,
                   tShort, otherVars>>

\* a send_json that does not wait for the lock
SendLockFree(t) ==
    /\ tEnd = "open" /\ tPend[t] # << >> /\ t \notin tLock
    /\ tLock' = tLock \cup {t}
    /\ tDocs' = Append(tDocs, SubSeq(tPend[t], PrefixLen + 1, Len(tPend[t])))
    /\ UNCHANGED <<tPend, tWire, tRead, tEnd, tPc, tLen, tData, tRun, tOut, tDisc, tShort,
                   otherVars>>

\* with self.lock: the thread enters when no thread is inside
SendLock(t) ==
    /\ tEnd = "open" /\ tPend[t] # << >> /\ t \notin tLock
    /\ tLock = {}
    /\ tLock' = tLock \cup {t}
    /\ tDocs' = Append(tDocs, SubSeq(tPend[t], PrefixLen + 1, Len(tPend[t])))
    /\ UNCHANGED <<tPend, tWire, tRead, tEnd, tPc, tLen, tData, tRun, tOut, tDisc, tShort,
                   otherVars>>

\* self.conn.sendall(length + data): the bytes go out in one or more writes;
\* the lock is released behind the last one
SendChunk(t) ==
    /\ tEnd = "open" /\ t \in tLock
    /\ \E k \in 1 .. Len(tPend[t]) :
        /\ tWire' = tWire \o SubSeq(tPend[t], 1, k)
        /\ tPend' = [tPend EXCEPT ![t] = SubSeq(tPend[t], k + 1, Len(tPend[t]))]
        /\ tLock' = IF k = Len(tPend[t]) THEN tLock \ {t} ELSE tLock
    /\ UNCHANGED <<tDocs, tRead, tEnd, tPc, tLen, tData, tRun, tOut, tDisc, tShort, otherVars>>

\* a foreign peer writes a frame whose body does not decode
WriteRaw(b) ==
    /\ tEnd = "open" /\ tLock = {} /\ Begun < MaxFrames
    /\ tWire' = tWire \o Frame(b)
    /\ tDocs' = Append(tDocs, b)
    /\ UNCHANGED <<tPend, tLock, tRead, tEnd, tPc, tLen, tData, tRun, tOut, tDisc, tShort,
                   otherVars>>

\* the sending side goes away (the stream ends behind what was written), or
\* the connection breaks (recv raises)
StreamEnds(how) ==
    /\ tEnd = "open"
    /\ tEnd' = how
    /\ tPend' = [t \in Senders |-> << >>]
    /\ tLock' = {}
    /\ UNCHANGED <<tDocs, tWire, tRead, tPc, tLen, tData, tRun, tOut, tDisc, tShort, otherVars>>

\* length_data = conn.recv(4); length = int.from_bytes(length_data, 'big'); data = b""
RxPrefix ==
    /\ tPc = "top" /\ tRun
    /\ \E k \in Recvs(PrefixLen) :
        /\ tLen' = FromBytes(Take(k))
        /\ tRead' = tRead + k
        /\ tShort' = (tShort \/ k < PrefixLen)
    /\ tData' = << >>
    /\ tPc' = "body"
    /\ UNCHANGED <<tPend, tLock, tDocs, tWire, tEnd, tRun, tOut, tDisc, otherVars>>

\* while len(data) < length: chunk = conn.recv(min(length - len(data), NET_BUF)); data += chunk
RxBody ==
    /\ tPc = "body" /\ Len(tData) < tLen
    /\ \E k \in Recvs(Min(tLen - Len(tData), NET_BUF)) :
        /\ tData' = tData \o Take(k)
        /\ tRead' = tRead + k
    /\ UNCHANGED <<tPend, tLock, tDocs, tWire, tEnd, tPc, tLen, tRun, tOut, tDisc, tShort,
                   otherVars>>

\* len(data) == length: msg = json.loads(data.decode()); self.recv_callback(msg)
RxDecode ==
    /\ tPc = "body" /\ Len(tData) = tLen
    /\ tOut' = IF AfterLoads(tData).dispatch THEN Append(tOut, tData) ELSE tOut
    /\ tPc' = AfterLoads(tData).pc
    /\ tData' = << >> /\ tLen' = 0
    /\ UNCHANGED <<tPend, tLock, tDocs, tWire, tRead, tEnd, tRun, tDisc, tShort, otherVars>>

\* recv returns b"" at the end of the stream (if not length_data: break;
\* if not chunk: break; if len(data) != length: break), or raises
RxEnd ==
    /\ tPc = "top" \/ (tPc = "body" /\ Len(tData) < tLen)
    /\ (tEnd = "eof" /\ Avail = 0) \/ tEnd = "fault"
    /\ tPc' = "finally"
    /\ tData' = << >> /\ tLen' = 0
    /\ UNCHANGED <<tPend, tLock, tDocs, tWire, tRead, tEnd, tRun, tOut, tDisc, tShort,
                   otherVars>>

\* a finally block that ends the loop without telling the handler
RxFinallySilent ==
    /\ tPc = "finally"
    /\ tRun' = FALSE
    /\ tPc' = "done"
    /\ UNCHANGED <<tPend, tLock, tDocs, tWire, tRead, tEnd, tLen, tData, tOut, tDisc, tShort,
                   otherVars>>

\* finally: self.running = False; self.recv_callback({"type": MSG_DISCONNECT})
RxFinally ==
    /\ tPc = "finally"
    /\ tRun' = FALSE
    /\ tDisc' = tDisc + 1
    /\ tPc' = "done"
    /\ UNCHANGED <<tPend, tLock, tDocs, tWire, tRead, tEnd, tLen, tData, tOut, tShort,
                   otherVars>>

\* the receive thread
RxThread == RxPrefix \/ RxBody \/ RxDecode \/ RxEnd \/ RxFinally

WireInit ==
    /\ heap = << >>
    /\ MoveIdle /\ WinIdle /\ AppIdle /\ BenchIdle

WireNext ==
    \/ \E t \in Senders, d \in Docs : SendCall(t, d)
    \/ \E t \in Senders : SendLock(t)
    \/ \E t \in Senders : SendChunk(t)
    \/ \E b \in BadBodies : WriteRaw(b)
    \/ \E how \in {"eof", "fault"} : StreamEnds(how)
    \/ RxPrefix
    \/ RxBody
    \/ RxDecode
    \/ RxEnd
    \/ RxFinally

SpecWire == WireInit /\ [][WireNext]_vars

\* the receive thread is a thread of its own: it takes its next step whenever
\* it has one
SpecWireFair == SpecWire /\ WF_vars(RxThread)

\* ------------------------------------------------------------------ claims on the transport
IsPrefix(s, t) == Len(s) <= Len(t) /\ s = SubSeq(t, 1, Len(s))

\* every frame so far was written by send_json, and the connection is open
OnlySendJson == tEnd = "open" /\ \A k \in 1 .. Len(tDocs) : tDocs[k] \in Docs

\* everything written has been received and worked off
Drained ==
    /\ tLock = {} /\ Avail = 0
    /\ ~(tPc = "body" /\ Len(tData) = tLen)

\* what recv_loop has dispatched is what was sent, in send order, and all of it
\* once everything written has been received
Reassembled ==
    /\ IsPrefix(tOut, tDocs)
    /\ tPc \in {"top", "body"} /\ tDisc = 0
    /\ Drained => tOut = tDocs /\ tPc = "top"

\* C14: for every sequence of frames written by send_json and every way the
\* transport splits the byte stream into partial deliveries, inside the length
\* prefix and inside the body, recv_loop dispatches exactly the sent messages,
\* each once, byte-identical and in send order.
C14_Reassembly == OnlySendJson => Reassembled

\* C14, the part that holds: the same while every conn.recv(4) returned the
\* four bytes of a prefix, however the bodies were split
C14_ReassemblyOfBodies == OnlySendJson /\ ~tShort => Reassembled

\* two frames were written, read in pieces, and both messages dispatched
C14_Witness ==
    /\ OnlySendJson /\ ~tShort /\ Len(tDocs) = 2 /\ tDocs[1] # tDocs[2]
    /\ tOut = tDocs /\ tRead > 2 * PrefixLen + 2

\* the bytes of the first n frames begun
RECURSIVE FramesLen(_)
FramesLen(n) == IF n = 0 THEN 0 ELSE FramesLen(n - 1) + PrefixLen + Len(tDocs[n])

\* the frames written to the end
Whole == {n \in 1 .. Len(tDocs) : FramesLen(n) <= Len(tWire)}

\* every message dispatched is the body of a frame that was written whole
NoPartialFrame ==
    /\ Len(tOut) <= Cardinality(Whole)
    /\ \A k \in 1 .. Len(tOut) : \E n \in Whole : tOut[k] = tDocs[n]

\* C15: when the stream closes or an I/O fault occurs at any point (between
\* frames, inside the length prefix, in the middle of a body), recv_loop
\* dispatches no partial frame, sets running to false and delivers exactly one
\* Disconnect event; after that event it dispatches nothing more and the loop
\* is not entered again.
C15_CloseEndsLoop ==
    /\ [](NoPartialFrame /\ tDisc <= 1)
    /\ [][tDisc' # tDisc => tDisc' = 1 /\ ~tRun' /\ tOut' = tOut]_vars
    /\ [][tPc = "done" => tPc' = "done" /\ tOut' = tOut /\ tDisc' = tDisc /\ ~tRun']_vars
    /\ (tEnd # "open" ~> (tPc = "done" /\ tDisc = 1 /\ ~tRun))

\* the sending side went away in the middle of a frame, behind a whole one: the
\* whole one was dispatched, and the loop is over
C15_Witness ==
    /\ tEnd # "open" /\ tPc = "done" /\ tDisc = 1
    /\ Cardinality(Whole) = 1 /\ Len(tDocs) = 2
    /\ Len(tWire) > FramesLen(1) /\ tRead = Len(tWire)
    /\ tOut = <<tDocs[1]>>

\* recv_loop has a complete frame in hand whose body is data
Completes(data) == tPc = "body" /\ Len(tData) = tLen /\ tData = data /\ RxDecode

\* the frame is dropped and the loop goes on
Discarded ==
    /\ tOut' = tOut /\ tDisc' = tDisc
    /\ tRun' /\ tPc' = "top"

\* C16: a completely received frame whose body fails to decode (bytes that are
\* not valid UTF-8, or text that is not valid JSON) is discarded without being
\* dispatched, the receive loop keeps running, later well-formed frames are
\* still dispatched in order, and no Disconnect event is emitted because of it.
C16_BadFrameSkipped ==
    /\ [][\A b \in BadBodies : Completes(b) => Discarded]_vars
    /\ [](~tShort /\ tEnd = "open" /\ Drained =>
            /\ tPc = "top" /\ tDisc = 0
            /\ tOut = SelectSeq(tDocs, LAMBDA d : d \in Docs))

\* C16, the part that holds: a frame whose body is text that is not JSON is
\* discarded, and the loop goes on
C16_BadJsonSkipped ==
    /\ [][\A b \in BadBodies : Utf8Valid(b) /\ Completes(b) => Discarded]_vars
    /\ [](~tShort /\ tEnd = "open" /\ Drained /\ (\A k \in 1 .. Len(tDocs) : Utf8Valid(tDocs[k])) =>
            /\ tPc = "top" /\ tDisc = 0
            /\ tOut = SelectSeq(tDocs, LAMBDA d : d \in Docs))

\* a frame that is not JSON came first; the frame behind it was dispatched
C16_Witness ==
    /\ tEnd = "open" /\ ~tShort /\ Drained
    /\ Len(tDocs) = 2 /\ tDocs[1] \in BadBodies /\ Utf8Valid(tDocs[1])
    /\ tOut = <<tDocs[2]>>

\* the frames begun so far, one behind the other
RECURSIVE Framed(_)
Framed(n) == IF n = 0 THEN << >> ELSE Framed(n - 1) \o Frame(tDocs[n])

\* C17: sends are atomic per connection: when send_json is called concurrently
\* from the main loop and from the receive thread, the bytes of the two frames
\* never interleave on the wire; each frame's 4-byte prefix is immediately
\* followed by exactly its own body.
C17_AtomicSends ==
    /\ Cardinality(tLock) <= 1
    /\ IsPrefix(tWire, Framed(Len(tDocs)))

\* one thread has written a part of its frame, the other one has its frame
\* ready and waits for the lock
C17_Witness ==
    \E t, u \in Senders :
        /\ t # u /\ tLock = {t}
        /\ tPend[t] # << >> /\ Len(tPend[t]) < PrefixLen
        /\ tPend[u] # << >> /\ tPend[u] # Frame(tDocs[Len(tDocs)])

\* ------------------------------------------------------------------ the search engine on positions
\* Positions reached by accepted moves: a new match; three pieces each in
\* columns 3 and 0; the same with player 2 to move; the same won by player 1;
\* the drawn game two moves before its end, and at its end.
SearchSeeds ==
    {NewGame, Stack6, Play(Stack6, <<1>>), Play(Stack6, <<3>>), Centre6, Draw40, Draw42}

\* values of ai_level: the four the program knows, one in lower case, one unknown
Levels == {"EASY", "easy", "MED", "MEDIUM", "HARD", "EXPERT"}

\* the levels that search
Searching == {"MED", "MEDIUM", "HARD"}

SearchInit ==
    /\ heap = << >>
    /\ MoveIdle /\ WinIdle /\ AppIdle /\ ByteIdle
    /\ sPos \in SearchSeeds /\ sPlies = 0
    /\ sCall = NoSearch /\ sGot = {} /\ sCols = {}

\* an accepted move of the player to move
SearchMove(c) ==
    /\ sPlies < MaxPlies
    /\ ~sPos.game_over /\ c \in valid_moves(sPos)
    /\ sPos' = Child(sPos, c, sPos.current_player)
    /\ sPlies' = sPlies + 1
    /\ sCall' = NoSearch /\ sGot' = {} /\ sCols' = {}
    /\ UNCHANGED <<heap, moveVars, winVars, byteVars, appVars>>

\* minimax_ab(state, depth, -inf, inf, True, 2)
SearchCall(depth) ==
    /\ sCall = NoSearch
    /\ sCall' = [fn |-> "minimax_ab", depth |-> depth, level |-> ""]
    /\ sGot' = minimax_ab(sPos, depth, -Inf, Inf, TRUE, 2)
    /\ UNCHANGED <<sPos, sPlies, sCols, heap, moveVars, winVars, byteVars, appVars>>

\* ai_choose(gs) with gs.ai_level = lvl; the searching levels on the seed
\* positions
ChooseCall(lvl) ==
    /\ sCall = NoSearch
    /\ lvl \in Searching => sPlies = 0
    /\ sCall' = [fn |-> "ai_choose", depth |-> 0, level |-> lvl]
    /\ sCols' = ai_choose([sPos EXCEPT !.ai_level = lvl])
    /\ UNCHANGED <<sPos, sPlies, sGot, heap, moveVars, winVars, byteVars, appVars>>

\* the harness forgets the result
SearchDrop ==
    /\ sCall # NoSearch
    /\ sCall' = NoSearch /\ sGot' = {} /\ sCols' = {}
    /\ UNCHANGED <<sPos, sPlies, heap, moveVars, winVars, byteVars, appVars>>

SearchNext ==
    \/ \E c \in Cols : SearchMove(c)
    \/ \E depth \in 1 .. MaxSearchDepth : SearchCall(depth)
    \/ \E lvl \in Levels : ChooseCall(lvl)
    \/ SearchDrop

SpecSearch == SearchInit /\ [][SearchNext]_vars

\* ------------------------------------------------------------------ claims on the search engine
\* ai_choose returned a legal column, and None only when there is none
ChoiceLegal ==
    sCall.fn = "ai_choose" =>
        /\ valid_moves(sPos) # {} => sCols # {} /\ sCols \subseteq valid_moves(sPos)
        /\ NoCol \in sCols => valid_moves(sPos) = {}

\* C18: for every state reachable by accepted moves that has a non-full
\* column, minimax_ab with depth >= 1 returns a column of valid_moves(state),
\* and ai_choose returns a column of valid_moves(state) at every level;
\* ai_choose returns None only when no column is legal.
C18_SearchLegal ==
    /\ sCall.fn = "minimax_ab" /\ valid_moves(sPos) # {} =>
            sGot # {} /\ \A r \in sGot : r.col \in valid_moves(sPos)
    /\ ChoiceLegal

\* C18 for the states minimax_ab searches: the same, for a state whose game
\* is not over
C18_SearchLegalInPlay ==
    /\ sCall.fn = "minimax_ab" /\ valid_moves(sPos) # {} /\ ~sPos.game_over =>
            sGot # {} /\ \A r \in sGot : r.col \in valid_moves(sPos)
    /\ ChoiceLegal

\* the search at level HARD was run on a position with a full column, and
\* returned one of the others
C18_Witness ==
    /\ sCall.fn = "ai_choose" /\ sCall.level = "HARD"
    /\ ~sPos.game_over /\ sPos.move_count > 0
    /\ valid_moves(sPos) # {} /\ valid_moves(sPos) # Cols
    /\ sCols # {} /\ sCols \subseteq valid_moves(sPos)

Abs(n) == IF n < 0 THEN -n ELSE n

\* the largest absolute score of a window, over every content of four cells
\* and both players
MaxWindow ==
    LET scores == {Abs(score_window(w, p)) : w \in [1 .. 4 -> 0 .. 2], p \in {1, 2}}
    IN  CHOOSE m \in scores : \A n \in scores : n <= m

\* no board evaluates above this: six centre cells and every window at its most
MaxEval == ROWS * 6 + Len(ScanOrder) * MaxWindow

\* player 2, to move in s, completes a line of four in column c
WinsAt(s, c) ==
    /\ ~s.game_over /\ s.current_player = 2
    /\ c \in valid_moves(s)
    /\ HasLine(Child(s, c, 2).board, 2)

\* C19: forced outcomes outrank positional play: for every state in which
\* player 2, to move, has a column that completes a line of four, minimax_ab
\* with depth >= 1 and maximizing = true returns the win sentinel 10,000,000;
\* the sentinel is strictly greater than the absolute value of
\* evaluate_board(b, p) for every board b and player p.
C19_ForcedWin ==
    /\ sCall.fn = "minimax_ab" /\ (\E c \in Cols : WinsAt(sPos, c)) =>
            sGot # {} /\ \A r \in sGot : r.score = WinScore /\ WinsAt(sPos, r.col)
    /\ WinScore > MaxEval
    /\ \A p \in {1, 2} : Abs(evaluate_board(sPos.board, p)) <= MaxEval

\* player 2 can complete column 0; the search of depth 2 returned the sentinel
C19_Witness ==
    /\ sCall.fn = "minimax_ab" /\ sCall.depth = 2
    /\ WinsAt(sPos, 0)
    /\ \E r \in sGot : r.score = WinScore /\ r.col = 0
    /\ \E p \in {1, 2} : evaluate_board(sPos.board, p) # 0

\* ------------------------------------------------------------------ claims on serialization
\* the states of the matches going on: every live GameState object
LiveStates == {heap[ref] : ref \in DOMAIN heap}

\* C20: serialization round-trips field for field: for every GameState s
\* reachable in a match, from_json(to_json(s)) has the same value as s in each
\* of the ten fields, both when last_move is None and when it holds
\* (col, row, player); and to_json(from_json(x)) = x for every document x
\* produced by to_json.
C20_RoundTrip ==
    \A s \in LiveStates :
        /\ DOMAIN from_json(to_json(s)) = DOMAIN s
        /\ \A f \in DOMAIN s : from_json(to_json(s))[f] = s[f]
        /\ to_json(from_json(to_json(s))) = to_json(s)

\* C20, the part that holds: nine fields come back as they were and last_move
\* as the JSON array of its three numbers (or null); a document comes back
\* unchanged
C20_RoundTripAsJson ==
    \A s \in LiveStates :
        /\ DOMAIN from_json(to_json(s)) = DOMAIN s
        /\ \A f \in DOMAIN s \ {"last_move"} : from_json(to_json(s))[f] = s[f]
        /\ from_json(to_json(s)).last_move = JsonValue(s.last_move)
        /\ to_json(from_json(to_json(s))) = to_json(s)

\* a state made by make_move, and a state deserialized from its document
C20_Witness ==
    \E s, d \in LiveStates :
        /\ s.last_move.kind = "tuple"
        /\ d.last_move.kind = "list"
        /\ d.last_move = JsonValue(s.last_move) /\ d.board = s.board


\* ------------------------------------------------------------------ claims on the host's join
\* the host i handles a JoinRequest: the event of accept_loop, or a frame
HostGetsJoin(i) ==
    \/ HostAccept(i)
    \/ net[i].is_host /\ Receives(i, MSG_JOIN)

AiResult(i) ==
    LET mv == make_move(heap, gs[i], aiCol, 2)
    IN  IF mv.raised THEN << >> ELSE <<mv.heap[mv.new]>>

\* C22: in a match against the adversary a search is started only when no
\* task handle is held and no search is running, on player 2's turn of a game
\* that is not over; a running search always has its handle; the handle is
\* cleared only by the step that applies the result, which is one make_move
\* of the column in the holder to the match state.
C22_OneSearch ==
    /\ [](aiBusy => aiThread)
    /\ [][AiStart("a") =>
            /\ ~aiThread /\ ~aiBusy
            /\ heap[gs["a"]].mode = "AI"
            /\ heap[gs["a"]].current_player = 2
            /\ ~heap[gs["a"]].game_over]_vars
    /\ [][aiBusy' /\ ~aiBusy => AiStart("a")]_vars
    /\ [][aiThread /\ ~aiThread' => AiApply("a")]_vars
    /\ [][AiApply("a") =>
            /\ ~aiBusy /\ aiCol \in Cols /\ ~aiThread'
            /\ AiResult("a") # << >>
            /\ Held(heap', holder', "a") = AiResult("a")]_vars

\* the adversary's first move has been applied and the handle cleared
C22_Witness ==
    /\ ~aiThread /\ ~aiBusy /\ aiCol \in Cols
    /\ holder["a"] # NoRef
    /\ heap[holder["a"]].mode = "AI"
    /\ heap[holder["a"]].move_count = 2
    /\ heap[holder["a"]].last_move.player = 2
    /\ heap[holder["a"]].last_move.col = aiCol

\* ------------------------------------------------------------------ claims on the host's own move
\* the main loop of instance i stands in the event loop of an ONLINE_HOST match
HostInEvents(i) ==
    /\ pc[i] = "events" /\ gs[i] # NoRef
    /\ heap[gs[i]].mode = "ONLINE_HOST"

\* the click at mx passes the host's validation in the state gs of instance i
HostMayPlay(i, mx) ==
    /\ heap[gs[i]].current_player = heap[gs[i]].local_player
    /\ ~heap[gs[i]].game_over
    /\ net[i].exists /\ net[i].running
    /\ mx \div SQUARE_SIZE \in Cols
    /\ heap[gs[i]].board[0][mx \div SQUARE_SIZE] = 0

\* the state value make_move gives for the host's click at mx
ClickResult(i, mx) ==
    LET mv == make_move(heap, gs[i], mx \div SQUARE_SIZE, heap[gs[i]].current_player)
    IN  mv.heap[mv.new]

\* C23: a step of the host's event loop applies a move to the canonical state
\* only as a click that finds current_player = local_player, the connection
\* running and the column in range and not full; the move is then applied to
\* the state the holder has, the result becomes the canonical state and the
\* loop goes on to send a GameStateSync with exactly this state; every other
\* step of the event loop leaves the canonical state as it was and sends no
\* GameStateSync.
C23_HostMove ==
    [][\A i \in Inst : HostInEvents(i) /\ pc'[i] # pc[i] =>
            IF \E mx \in ClickXs : ClickHost(i, mx) /\ HostMayPlay(i, mx)
            THEN \E mx \in ClickXs :
                    /\ ClickHost(i, mx) /\ HostMayPlay(i, mx)
                    /\ Held(heap, holder, i) = <<heap[gs[i]]>>
                    /\ Held(heap', holder', i) = <<ClickResult(i, mx)>>
                    /\ pc'[i] = "send"
                    /\ gs'[i] # NoRef /\ heap'[gs'[i]] = ClickResult(i, mx)
            ELSE /\ Held(heap', holder', i) = Held(heap, holder, i)
                 /\ pc'[i] # "send"]_vars
    /\ [][\A i \in Inst : SendState(i) =>
            wire' = Sent(i, GameStateMsg(heap[gs[i]]))]_vars
    /\ [][\A i \in Inst : pc[i] # "send" /\ pc'[i] = "send" =>
            \E mx \in ClickXs : ClickHost(i, mx) /\ HostMayPlay(i, mx)]_vars

\* C23, the part that holds whatever the receive thread does meanwhile: the
\* host's event loop changes the canonical state only as a click that finds, in
\* the state the loop read, current_player = local_player, the connection
\* running and the column in range and not full; the canonical state is then
\* make_move's result on the state the loop read and the loop goes on to send a
\* GameStateSync with exactly this state; every other step of the event loop
\* leaves the canonical state as it was and sends no GameStateSync.
C23_HostMoveOfRead ==
    /\ [][\A i \in Inst : HostInEvents(i) /\ pc'[i] # pc[i] =>
            IF \E mx \in ClickXs : ClickHost(i, mx) /\ HostMayPlay(i, mx)
            THEN \E mx \in ClickXs :
                    /\ ClickHost(i, mx) /\ HostMayPlay(i, mx)
                    /\ Held(heap', holder', i) = <<ClickResult(i, mx)>>
                    /\ pc'[i] = "send"
                    /\ gs'[i] # NoRef /\ heap'[gs'[i]] = ClickResult(i, mx)
            ELSE /\ Held(heap', holder', i) = Held(heap, holder, i)
                 /\ pc'[i] # "send"]_vars
    /\ [][\A i \in Inst : SendState(i) =>
            wire' = Sent(i, GameStateMsg(heap[gs[i]]))]_vars
    /\ [][\A i \in Inst : pc[i] # "send" /\ pc'[i] = "send" =>
            \E mx \in ClickXs : ClickHost(i, mx) /\ HostMayPlay(i, mx)]_vars

\* the host's loop stands before a click that its validation will pass, on a
\* state that is no longer the one in the holder
C23_StaleRead ==
    \E i \in Inst :
        /\ HostInEvents(i)
        /\ net[i].is_host
        /\ \E mx \in ClickXs : HostMayPlay(i, mx)
        /\ holder[i] # NoRef
        /\ heap[holder[i]] # heap[gs[i]]

\* the host has played and its GameStateSync with the new state is on the way
C23_Witness ==
    \E i \in Inst :
        /\ net[i].is_host /\ net[i].running /\ holder[i] # NoRef
        /\ heap[holder[i]].last_move.player = 1
        /\ heap[holder[i]].move_count > 0
        /\ wire[Peer(i)] # << >>
        /\ wire[Peer(i)][Len(wire[Peer(i)])] = GameStateMsg(heap[holder[i]])

\* ------------------------------------------------------------------ claims on pruning
\* the value of a state the search does not expand
Leaf(state, ai_player) ==
    IF state.game_over
    THEN IF state.winner = ai_player THEN WinScore
         ELSE IF state.winner = 3 THEN 0 ELSE -WinScore
    ELSE evaluate_board(state.board, ai_player)

\* the best of the scores of the columns, and the lowest column that has it
PickFirst(scores, maximizing) ==
    LET best == CHOOSE v \in {scores[c] : c \in DOMAIN scores} :
                    \A c \in DOMAIN scores :
                        IF maximizing THEN scores[c] <= v ELSE scores[c] >= v
    IN  [score |-> best,
         col   |-> CHOOSE c \in DOMAIN scores :
                        /\ scores[c] = best
                        /\ \A d \in DOMAIN scores : d < c => scores[d] # best]

\* minimax without pruning: every legal column is searched to the full depth,
\* the first of the best columns is kept
RECURSIVE Unpruned(_, _, _, _)
Unpruned(state, depth, maximizing, ai_player) ==
    IF depth = 0 \/ state.game_over \/ valid_moves(state) = {}
    THEN [score |-> Leaf(state, ai_player), col |-> NoCol]
    ELSE PickFirst([c \in valid_moves(state) |->
                        Unpruned(Child(state, c,
                                       IF maximizing THEN ai_player
                                       ELSE IF ai_player = 2 THEN 1 ELSE 2),
                                 depth - 1, ~maximizing, ai_player).score],
                   maximizing)

\* C24: for every state whose game is not over and every depth >= 1,
\* minimax_ab with the window (-infinity, +infinity) returns one pair only,
\* whatever random.choice gave for the initial best column, and this pair is
\* the value and the column of the minimax without pruning that visits the
\* legal columns in ascending order and keeps the first of the best.
C24_PruningExact ==
    sCall.fn = "minimax_ab" /\ ~sPos.game_over =>
        sGot = {Unpruned(sPos, sCall.depth, TRUE, 2)}

\* a search of the deepest level tried, on a position with pieces, in which
\* two columns are equally good at depth 1 and the lower was returned
C24_Witness ==
    /\ sCall.fn = "minimax_ab" /\ sCall.depth = MaxSearchDepth
    /\ ~sPos.game_over /\ sPos.move_count > 0
    /\ \E r \in sGot : \E c \in valid_moves(sPos) :
            /\ c > r.col
            /\ Unpruned(Child(sPos, c, 2), sCall.depth - 1, FALSE, 2).score = r.score

\* ------------------------------------------------------------------ a foreign peer of the host
\* An online match in which the host's peer also writes frames of its own: a
\* GameStateSync with a position whose first player is not decided, and
\* JoinRequests.
ForeignFrames ==
    {[Msg(MSG_GAME_STATE) EXCEPT !.state = DocState(to_json(Play(NewGame, <<3>>)))],
     Msg(MSG_JOIN)}

InjectForeign(i) ==
    /\ linked /\ net[i].exists /\ net[i].is_host /\ rx[i] \in {"recv", "reply"}
    /\ inputs < MaxInputs /\ injected < MaxForeign
    /\ \E m \in ForeignFrames : wire' = Set(wire, i, Append(wire[i], m))
    /\ inputs' = inputs + 1
    /\ injected' = injected + 1
    /\ UNCHANGED <<heap, holder, gs, moveVars, winVars, benchVars, loopVars, net, rx, reply, disc,
                   linked, aiVars, saveFile, matches>>

NextForeign ==
    \/ \E first \in {1, 2} : StartHost("a", first)
    \/ JoinConnect("b")
    \/ JoinInstall("b")
    \/ \E i \in Inst : LoopTop(i)
    \/ \E i \in Inst : EvNone(i)
    \/ \E i \in Inst : EvEsc(i)
    \/ \E i \in Inst, mx \in ClickXs : ClickHost(i, mx)
    \/ \E i \in Inst, mx \in ClickXs : ClickClient(i, mx)
    \/ \E i \in Inst : SendState(i)
    \/ \E i \in Inst : HostAccept(i)
    \/ \E i \in Inst : RxFrame(i)
    \/ \E i \in Inst : RxReply(i)
    \/ \E i \in Inst : RxClosed(i)
    \/ \E i \in Inst : RxStopped(i)
    \/ \E i \in Inst : InjectForeign(i)

SpecForeign == Init /\ [][NextForeign]_vars

\* ------------------------------------------------------------------ claims on the state holder
\* handling message m at instance i writes a field of an object on the heap
WritesField(i, m) ==
    \E r \in Handle(i, m) : \E ref \in DOMAIN heap : r.h[ref] # heap[ref]

\* the receive task of instance i handles an event or a frame
HandlerStep(i) ==
    HostAccept(i) \/ RxFrame(i) \/ RxClosed(i) \/ RxStopped(i)

\* C25: the network receive task changes the state holder only by putting
\* another state object into it: handling an event or a frame writes no field
\* of an object that exists, and the state object a main loop has read keeps
\* its value over every step of the receive task.
C25_ReplaceOnly ==
    [][\A i \in Inst :
            /\ HostAccept(i) => ~WritesField(i, Msg(MSG_JOIN))
            /\ rx[i] = "recv" /\ wire[i] # << >> /\ RxFrame(i) =>
                    ~WritesField(i, Head(wire[i]))
            /\ HandlerStep(i) =>
                    \A j \in Inst : gs[j] # NoRef =>
                        gs'[j] # NoRef /\ heap'[gs'[j]] = heap[gs[j]]]_vars

\* the host i holds a state whose first player is not decided
Undecided(i) ==
    /\ net[i].is_host /\ holder[i] # NoRef
    /\ ~heap[holder[i]].first_player_decided

\* C25 for every event and frame but a JoinRequest that finds the first
\* player undecided: the receive task writes no field of an existing object
C25_ReplaceOnlyDecided ==
    [][\A i \in Inst : ~(Undecided(i) /\ HostGetsJoin(i)) =>
            /\ HostAccept(i) => ~WritesField(i, Msg(MSG_JOIN))
            /\ rx[i] = "recv" /\ wire[i] # << >> /\ RxFrame(i) =>
                    ~WritesField(i, Head(wire[i]))
            /\ HandlerStep(i) =>
                    \A j \in Inst : gs[j] # NoRef =>
                        gs'[j] # NoRef /\ heap'[gs'[j]] = heap[gs[j]]]_vars

\* the receive task of the host has put another object into the holder while
\* the main loop works on the one it read
C25_Witness ==
    \E i \in Inst :
        /\ net[i].is_host /\ holder[i] # NoRef /\ gs[i] # NoRef
        /\ holder[i] # gs[i]
        /\ pc[i] = "events"
        /\ heap[holder[i]].move_count # heap[gs[i]].move_count

\* ------------------------------------------------------------------ an online match in progress
\* Player 1 has three pieces in column 3, player 2 two in column 1; player 2
\* is to move.
Lead5 == Play(NewGame, <<3, 1, 3, 1, 3>>)

\* the host's state of an online match at position pos
HostState(pos) ==
    [pos EXCEPT !.mode = "ONLINE_HOST", !.local_player = 1, !.first_player_decided = TRUE]

\* what the client caches after the host's GameStateSync of position pos
ClientState(pos) ==
    [from_json(to_json(HostState(pos))) EXCEPT !.mode = "ONLINE_CLIENT", !.local_player = 2]

\* Host a and client b are in an online match at position pos: every frame
\* sent has been handled, both main loops are between two iterations.
OnlineAt(pos) ==
    /\ heap = <<HostState(pos), ClientState(pos)>>
    /\ holder = [i \in Inst |-> IF i = "a" THEN 1 ELSE 2]
    /\ gs = [i \in Inst |-> NoRef]
    /\ inMenu = [i \in Inst |-> FALSE] /\ pc = [i \in Inst |-> "top"]
    /\ err = [i \in Inst |-> NoError] /\ waiting = [i \in Inst |-> FALSE]
    /\ net = [i \in Inst |-> [exists |-> TRUE, is_host |-> i = "a", running |-> TRUE,
                                conn |-> "open"]]
    /\ rx = [i \in Inst |-> "recv"] /\ reply = [i \in Inst |-> NoMsg]
    /\ disc = [i \in Inst |-> 0] /\ wire = [i \in Inst |-> << >>] /\ linked = TRUE
    /\ aiThread = FALSE /\ aiBusy = FALSE /\ aiCol = NoCol /\ aiSnap = NewGame
    /\ matches = [i \in Inst |-> 1] /\ injected = 0

LateInit ==
    /\ MoveIdle /\ WinIdle /\ BenchIdle
    /\ OnlineAt(Lead5)
    /\ saveFile = NoFile /\ inputs = 0

NextLate ==
    \/ \E i \in Inst : LoopTop(i)
    \/ \E i \in Inst : EvNone(i)
    \/ \E i \in Inst, mx \in ClickXs : ClickHost(i, mx)
    \/ \E i \in Inst, mx \in ClickXs : ClickClient(i, mx)
    \/ \E i \in Inst : SendState(i)
    \/ \E i \in Inst : GameOverShow(i)
    \/ \E i \in Inst : GameOverLeave(i)
    \/ \E i \in Inst : RxFrame(i)
    \/ \E i \in Inst : RxReply(i)
    \/ \E i \in Inst : RxClosed(i)
    \/ \E i \in Inst : RxStopped(i)

SpecLate == LateInit /\ [][NextLate]_vars

\* the position after the first move of an online match, as the program
\* reaches it from the menu
OnlineAfterFirstMove == OnlineAt(Play(NewGame, <<3>>))

\* ------------------------------------------------------------------ claims on a finished match
\* the fields a move changes
Played(s) == <<s.board, s.move_count, s.winner>>

\* instance i holds a finished match over the step and its board, move_count
\* or winner changes
ChangedAfterOver(i) ==
    /\ holder[i] # NoRef /\ holder'[i] # NoRef
    /\ heap[holder[i]].game_over
    /\ Played(heap'[holder'[i]]) # Played(heap[holder[i]])

\* C26: once the state of a match has game_over = true, no step changes its
\* board, move_count or winner: no click, no host move, no PlayerMove the host
\* receives, no adversary move.
C26_NoMoveAfterOver ==
    [][\A i \in Inst : ~ChangedAfterOver(i)]_vars

\* C26 for the main loop: a finished match changes only when the receive
\* task handles a frame
C26_NoLocalMoveAfterOver ==
    [][\A i \in Inst : ChangedAfterOver(i) =>
            Receives(i, MSG_PLAYER_MOVE) \/ Receives(i, MSG_GAME_STATE)]_vars

\* the host has won and shows the winner; a PlayerMove the client sent before
\* is still to be handled
C26_Witness ==
    \E i \in Inst :
        /\ net[i].is_host /\ net[i].running /\ holder[i] # NoRef
        /\ heap[holder[i]].game_over /\ heap[holder[i]].winner = 1
        /\ pc[i] = "enter" /\ rx[i] = "recv"
        /\ wire[i] # << >> /\ Head(wire[i]).type = MSG_PLAYER_MOVE

\* ------------------------------------------------------------------ a second match
\* The player leaves a match to the menu and starts another one: main()'s
\* variables net, ai_thread and ai_result and the threads of the first match
\* live on.
AtMenuAgain(i) ==
    /\ inMenu[i] /\ pc[i] = "top"
    /\ matches[i] >= MaxMatches /\ matches[i] < MaxMatches + MaxRematches

\* choice == "Play Local", after a match
StartLocalAgain(i) ==
    /\ AtMenuAgain(i)
    /\ StartWith(i, GameState("LOCAL", "EASY"))
    /\ UNCHANGED <<moveVars, winVars, benchVars, pc, waiting, netVars, aiVars, saveFile, inputs>>

\* choice == "Play vs AI", after a match
StartAIAgain(i, lvl) ==
    /\ AtMenuAgain(i)
    /\ StartWith(i, GameState("AI", lvl))
    /\ UNCHANGED <<moveVars, winVars, benchVars, pc, waiting, netVars, aiVars, saveFile, inputs>>

AgainInit ==
    /\ Init
    /\ saveFile = NoFile

NextAgain ==
    \/ \E lvl \in AiLevels : StartAI("a", lvl)
    \/ \E first \in {1, 2} : StartHost("a", first)
    \/ JoinConnect("b")
    \/ JoinInstall("b")
    \/ StartLocalAgain("a")
    \/ \E lvl \in AiLevels : StartAIAgain("a", lvl)
    \/ \E i \in Inst : LoopTop(i)
    \/ \E i \in Inst : EvNone(i)
    \/ EvEsc("a")
    \/ \E mx \in ClickXs : ClickLocal("a", mx)
    \/ AiStart("a")
    \/ AiApply("a")
    \/ AiWait("a")
    \/ AiWorker
    \/ \E i \in Inst : HostAccept(i)
    \/ \E i \in Inst : RxFrame(i)
    \/ \E i \in Inst : RxReply(i)
    \/ \E i \in Inst : RxClosed(i)
    \/ \E i \in Inst : RxStopped(i)

SpecAgain == AgainInit /\ [][NextAgain]_vars

\* ------------------------------------------------------------------ claims on what a left match leaves behind
\* C27: every column applied as the adversary's move was computed by
\* ai_choose on a snapshot equal to the state it is applied to, also when the
\* player left to the menu during the search and plays another match against
\* the adversary.
C27_FreshResult ==
    [][AiApply("a") =>
            /\ aiSnap = heap[gs["a"]]
            /\ aiCol \in ai_choose(heap[gs["a"]])]_vars

\* C27, the part the program keeps: the column applied was computed by
\* ai_choose on the snapshot of the last search started
C27_ResultOfLastSearch ==
    [][AiApply("a") => ~aiBusy /\ aiCol \in ai_choose(aiSnap)]_vars

\* a new match against the adversary has begun while the result of a search
\* of the match before is in ai_result and its task handle is still set
C27_Witness ==
    /\ matches["a"] = MaxMatches + MaxRematches
    /\ ~inMenu["a"] /\ holder["a"] # NoRef
    /\ heap[holder["a"]].mode = "AI"
    /\ heap[holder["a"]].move_count = 0
    /\ aiThread /\ ~aiBusy /\ aiCol \in Cols
    /\ aiSnap.move_count > 0

\* C28: the Disconnect event of a receive loop whose connection was stopped
\* locally leaves the state of a match started afterwards as it is; and a
\* holder cleared during a match gets a state again only from the receive
\* task, never from a move of the main loop that had read the state before.
C28_LateDisconnect ==
    /\ [][\A i \in Inst : RxStopped(i) /\ ~inMenu[i] =>
            Held(heap', holder', i) = Held(heap, holder, i)]_vars
    /\ [][\A i \in Inst : ~inMenu[i] /\ holder[i] = NoRef /\ holder'[i] # NoRef =>
            Receives(i, MSG_GAME_STATE)]_vars

\* C28, the part the program keeps: while the connection of the match is up,
\* a Disconnect is handled only when its stream has ended
C28_DisconnectOfOwnMatch ==
    [][\A i \in Inst : net[i].exists /\ holder[i] # NoRef /\ holder'[i] = NoRef =>
            RxClosed(i) \/ GameOverLeave(i)]_vars

\* a match has begun on an instance whose stopped connection has not yet
\* delivered its Disconnect
C28_Witness ==
    \E i \in Inst :
        /\ matches[i] = MaxMatches + MaxRematches
        /\ ~inMenu[i] /\ holder[i] # NoRef
        /\ ~net[i].exists /\ disc[i] > 0

\* ------------------------------------------------------------------ claims on the turns
\* the number of cells of board that hold v
Pieces(board, v) == Cardinality({rc \in Rows \X Cols : Cell(board, rc) = v})

\* every column of board is filled from the bottom row without a gap
Stacked(board) ==
    \A r \in Rows, c \in Cols :
        board[r][c] # 0 /\ r < ROWS - 1 => board[r + 1][c] # 0

\* new is old after one piece of the player to move, in one cell
OneMoveOn(old, new) ==
    /\ new.last_move.kind = "tuple"
    /\ new.last_move.player = old.current_player
    /\ new.current_player = (IF old.current_player = 1 THEN 2 ELSE 1)
    /\ new.move_count = old.move_count + 1
    /\ old.board[new.last_move.row][new.last_move.col] = 0
    /\ new.board = [old.board EXCEPT
                        ![new.last_move.row][new.last_move.col] = old.current_player]

\* a move of the main loop of instance i was accepted
LoopMoved(i) ==
    /\ gs[i] # NoRef
    /\ \/ \E mx \in ClickXs : ClickLocal(i, mx) \/ ClickHost(i, mx)
       \/ AiApply(i)
    /\ err'[i] # <<"Invalid move">>

\* C29: in every accepted move (local click, adversary move, host move,
\* PlayerMove of the client) the piece placed is of the player who was
\* current_player in the state before, and current_player goes to the other
\* player; in every state the numbers of pieces of the two players differ by
\* at most one and every column is filled from the bottom without a gap.
C29_TurnsAlternate ==
    /\ [](\A ref \in DOMAIN heap :
            /\ heap[ref].current_player \in {1, 2}
            /\ Pieces(heap[ref].board, 1) - Pieces(heap[ref].board, 2) \in {-1, 0, 1}
            /\ Stacked(heap[ref].board))
    /\ [][\A i \in Inst :
            /\ LoopMoved(i) =>
                    holder'[i] # NoRef /\ OneMoveOn(heap[gs[i]], heap'[holder'[i]])
            /\ HostGetsMove(i) /\ Held(heap', holder', i) # Held(heap, holder, i) =>
                    holder'[i] # NoRef /\ OneMoveOn(heap[holder[i]], heap'[holder'[i]])]_vars

\* the host has accepted the client's answer to its first move
C29_Witness ==
    \E i \in Inst :
        /\ net[i].is_host /\ holder[i] # NoRef
        /\ heap[holder[i]].move_count = 2
        /\ heap[holder[i]].last_move.player = 2
        /\ heap[holder[i]].current_player = 1
        /\ Pieces(heap[holder[i]].board, 1) = 1 /\ Pieces(heap[holder[i]].board, 2) = 1

\* C29, the part about moves: every accepted move places one piece of the
\* player who was current_player in the state it was applied to, on the lowest
\* free cell of its column, and hands the turn to the other player.
C29_MovesAlternate ==
    [][\A i \in Inst :
            /\ LoopMoved(i) =>
                    holder'[i] # NoRef /\ OneMoveOn(heap[gs[i]], heap'[holder'[i]])
            /\ HostGetsMove(i) /\ Held(heap', holder', i) # Held(heap, holder, i) =>
                    holder'[i] # NoRef /\ OneMoveOn(heap[holder[i]], heap'[holder'[i]])]_vars

\* the host holds a state with two pieces of player 1 and none of player 2,
\* the later one placed by its own accepted move
C29_Unbalanced ==
    \E i \in Inst :
        /\ net[i].is_host /\ holder[i] # NoRef
        /\ heap[holder[i]].move_count = 2
        /\ heap[holder[i]].last_move.player = 1
        /\ heap[holder[i]].current_player = 2
        /\ Pieces(heap[holder[i]].board, 1) = 2 /\ Pieces(heap[holder[i]].board, 2) = 0
====
